---------------------------- MODULE Spec2Model ----------------------------
(***************************************************************************)
(* Verification model of the AI-readiness scoring and enrichment pipeline. *)
(*                                                                         *)
(*   - the enrichment entry point (app/api/ai-analysis/route.ts, present   *)
(*     in two builds: src/unnamed/part_000 and src/unnamed/part_001)       *)
(*   - the heuristic entry point (src/app/api/ai-readiness/route.ts):      *)
(*     analyzeHTML, checkAdditionalFiles, getDomainReputationBonus and     *)
(*     the score aggregation of POST.                                      *)
(*                                                                         *)
(* JavaScript values are tagged records [t |-> type, v |-> payload]; text  *)
(* is a sequence of tokens so that stripping, trimming and parsing are     *)
(* computed and not assumed.                                               *)
(***************************************************************************)
EXTENDS Integers, Sequences, FiniteSets, TLC

VARIABLES
    build,      \* which build of the enrichment route is deployed
    epc,        \* enrichment handler position
    ebody,      \* enrichment request body as received
    egen,       \* what the generative capability did for this request
    eresp,      \* enrichment response sent to the caller
    fpc,        \* pure-function harness: "input" before, "applied" after
    fin,        \* pure-function harness: the input drawn
    fout,       \* pure-function harness: what the code computed from it
    world,      \* the site and its host as this request finds them
    hpc,        \* heuristic handler position
    hreq,       \* the url of the heuristic request, as parsed
    htmlChecks, \* the content checks analyzeHTML returned
    pstate,     \* position of each of the four concurrent probes
    robotsCheck, sitemapCheck, llmsCheck,   \* the findings of the prober
    sitemapUrls,    \* the urls robots.txt declared
    candidates,     \* possibleSitemapUrls of the sitemap walk
    smIdx,      \* the candidate the walk is at
    smPhase,    \* the walk awaits the response ("fetching") or its body
    reqLog,     \* the urls fetched by the prober, in request order
    hresp,      \* heuristic response sent to the caller
    hbody,      \* the url property of the heuristic request body
    scrapeCalls \* how often the page-fetch collaborator was called

enrichVars == <<build, epc, ebody, egen, eresp>>

fnVars == <<fpc, fin, fout>>

probeVars ==
    <<pstate, robotsCheck, sitemapCheck, llmsCheck, sitemapUrls, candidates, smIdx,
      smPhase, reqLog>>

heurVars == <<world, hpc, hreq, htmlChecks, probeVars, hresp, hbody, scrapeCalls>>

vars == <<build, epc, ebody, egen, eresp, fpc, fin, fout, world, hpc, hreq, htmlChecks,
          pstate, robotsCheck, sitemapCheck, llmsCheck, sitemapUrls, candidates, smIdx,
          smPhase, reqLog, hresp, hbody, scrapeCalls>>

---------------------------------------------------------------------------
(* JavaScript values *)

Undef == [t |-> "undefined", v |-> 0]
Null == [t |-> "null", v |-> 0]
Num(n) == [t |-> "number", v |-> n]
Str(s) == [t |-> "string", v |-> s]
Arr(q) == [t |-> "array", v |-> q]
Obj(r) == [t |-> "object", v |-> r]

\* JavaScript truthiness, as used by !x and a || b.
Truthy(x) ==
    CASE x.t = "undefined" -> FALSE
      [] x.t = "null" -> FALSE
      [] x.t = "number" -> x.v # 0
      [] x.t = "string" -> x.v # ""
      [] OTHER -> TRUE

JsOr(a, b) == IF Truthy(a) THEN a ELSE b

\* Reading property p of x throws a TypeError when x is null or undefined.
PropThrows(x) == x.t \in {"undefined", "null"}

\* x.p for a value on which the read does not throw.
Prop(x, p) ==
    IF x.t = "object" /\ p \in DOMAIN x.v THEN x.v[p] ELSE Undef

---------------------------------------------------------------------------
(* Enrichment entry point: app/api/ai-analysis/route.ts *)

Builds == {"part_000", "part_001"}

\* Text returned by the generative capability: a sequence of tokens.  The
\* first three are the tokens the handler rewrites (the two code-fence
\* markers, three backticks with and without "json", and the newline);
\* every other token is an opaque run of non-blank text.
FenceJson == "[fence-json]"
Fence == "[fence]"
Newline == "\n"

Urls == {"https://a.com", "https://b.org"}

MkInsight(id, label, score, status, items) ==
    Obj([id |-> Str(id), label |-> Str(label), score |-> Num(score),
         status |-> Str(status), details |-> Str("details"),
         recommendation |-> Str("recommendation"),
         actionItems |-> Arr(items)])

FiveItems == <<Str("a1"), Str("a2"), Str("a3"), Str("a4"), Str("a5")>>

GoodBundle ==
    Obj([insights |-> Arr(<<MkInsight("content-quality", "Content Quality for AI",
                                      90, "pass", FiveItems)>>),
         overallAIReadiness |-> Str("Strong AI readiness."),
         topPriorities |-> Arr(<<Str("Add llms.txt")>>)])

\* The JSON documents the capability is made to answer with.
DocTokens ==
    {"null", "42", "[]", "{}", "{\"insights\":\"abc\"}",
     "{\"insights\":[7],\"overallAIReadiness\":5}", "GOOD", "Here is the analysis"}

TextTokens == {FenceJson, Fence, Newline} \cup DocTokens

\* What JSON.parse yields on a single document token; "throws" for text that
\* is not JSON.
JSONDoc(tok) ==
    CASE tok = "null" -> [ok |-> TRUE, val |-> Null]
      [] tok = "42" -> [ok |-> TRUE, val |-> Num(42)]
      [] tok = "[]" -> [ok |-> TRUE, val |-> Arr(<<>>)]
      [] tok = "{}" -> [ok |-> TRUE, val |-> Obj([x \in {} |-> Undef])]
      [] tok = "{\"insights\":\"abc\"}" ->
            [ok |-> TRUE, val |-> Obj([insights |-> Str("abc")])]
      [] tok = "{\"insights\":[7],\"overallAIReadiness\":5}" ->
            [ok |-> TRUE,
             val |-> Obj([insights |-> Arr(<<Num(7)>>), overallAIReadiness |-> Num(5)])]
      [] tok = "GOOD" -> [ok |-> TRUE, val |-> GoodBundle]
      [] OTHER -> [ok |-> FALSE, val |-> Undef]

RECURSIVE DropFence(_, _)
\* content.replace(/<fence>\n?/g, empty): every fence token goes, with the
\* newline that directly follows it.
DropFence(text, fence) ==
    IF text = <<>> THEN <<>>
    ELSE IF Head(text) = fence
         THEN IF Len(text) >= 2 /\ text[2] = Newline
              THEN DropFence(Tail(Tail(text)), fence)
              ELSE DropFence(Tail(text), fence)
         ELSE <<Head(text)>> \o DropFence(Tail(text), fence)

RECURSIVE TrimLeft(_)
TrimLeft(text) ==
    IF text # <<>> /\ Head(text) = Newline THEN TrimLeft(Tail(text)) ELSE text

RECURSIVE TrimRight(_)
TrimRight(text) ==
    IF text # <<>> /\ text[Len(text)] = Newline
    THEN TrimRight(SubSeq(text, 1, Len(text) - 1))
    ELSE text

Trim(text) == TrimRight(TrimLeft(text))

\* The cleaning of the response text: both fence kinds removed, then trim().
StripFences(text) == Trim(DropFence(DropFence(text, FenceJson), Fence))

\* JSON.parse(content): insignificant whitespace is skipped; exactly one
\* document must remain and it must be JSON.
JSONParse(content) ==
    LET docs == SelectSeq(content, LAMBDA tk : tk # Newline)
    IN  IF Len(docs) = 1 THEN JSONDoc(docs[1]) ELSE [ok |-> FALSE, val |-> Undef]

\* n action items named after their insight.
Items(prefix, n) == [i \in 1..n |-> Str(prefix \o "-" \o ToString(i))]

\* The action item of the data-structure insight that quotes the url.
LdJsonItem(url) == Str("<script type=application/ld+json>url:" \o url \o "</script>")

MockInsight(id, label, score, status, items) ==
    Obj([id |-> Str(id), label |-> Str(label), score |-> Num(score),
         status |-> Str(status), details |-> Str(id \o " details"),
         recommendation |-> Str(id \o " recommendation"),
         actionItems |-> Arr(items)])

\* generateMockInsights(url) of the build in src/unnamed/part_001.
MockInsightsShort(url) ==
    Obj([insights |-> Arr(<<
             MockInsight("content-quality", "Content Quality for AI", 75, "warning",
                         <<Str("Example action item.")>>),
             MockInsight("data-structure", "Data Structure & Schema", 60, "warning",
                         <<LdJsonItem(url)>>)>>),
         overallAIReadiness |-> Str("Moderate AI readiness."),
         topPriorities |-> Arr(<<Str("Implement structured data.")>>)])

\* generateMockInsights(url) of the build in src/unnamed/part_000.
MockInsightsLong(url) ==
    Obj([insights |-> Arr(<<
             MockInsight("content-quality", "Content Quality for AI", 75, "warning",
                         Items("content-quality", 4)),
             MockInsight("data-structure", "Data Structure & Schema", 60, "warning",
                         <<LdJsonItem(url)>> \o Items("data-structure", 4)),
             MockInsight("crawlability", "Crawlability Score", 85, "pass",
                         Items("crawlability", 4)),
             MockInsight("training-value", "AI Training Value", 70, "warning",
                         Items("training-value", 5)),
             MockInsight("knowledge-graph", "Knowledge Graph Readiness", 55, "warning",
                         Items("knowledge-graph", 5)),
             MockInsight("entity-recognition", "Entity Recognition", 80, "pass",
                         Items("entity-recognition", 5)),
             MockInsight("completeness", "Content Completeness", 65, "warning",
                         Items("completeness", 5)),
             MockInsight("context-completeness", "Context Completeness", 65, "warning",
                         Items("context-completeness", 5))>>),
         overallAIReadiness |-> Str("Moderate AI readiness with good basic structure."),
         topPriorities |-> Arr(<<Str("Implement comprehensive structured data schemas"),
                                 Str("Create API endpoints for content access"),
                                 Str("Enhance content depth and completeness")>>)])

generateMockInsights(b, url) ==
    IF b = "part_001" THEN MockInsightsShort(url) ELSE MockInsightsLong(url)

DefaultUrl == "https://example.com"

\* Building the prompt reads currentChecks.filter(c => ... c.id ...): it throws
\* when currentChecks is no array or holds null/undefined.
PromptThrows(checks) ==
    \/ checks.t # "array"
    \/ \E i \in 1..Len(checks.v) : PropThrows(checks.v[i])

\* What the generative capability does: it was not called, it threw, or it
\* returned text.
NotCalled == [kind |-> "none", text |-> <<>>]
Threw == [kind |-> "throw", text |-> <<>>]
Returned(text) == [kind |-> "text", text |-> text]

\* A parse-failure branch that gives up with an empty object, no mock.
generateGeminiInsightsNoFallback(b, url, outcome) ==
    IF outcome.kind = "throw"
    THEN generateMockInsights(b, url)
    ELSE LET parsed == JSONParse(StripFences(outcome.text))
         IN  IF parsed.ok THEN parsed.val ELSE Obj([x \in {} |-> Undef])

\* generateGeminiInsights from the point where the capability has settled.
generateGeminiInsights(b, url, outcome) ==
    IF outcome.kind = "throw"
    THEN generateMockInsights(b, url)
    ELSE LET parsed == JSONParse(StripFences(outcome.text))
         IN  IF parsed.ok THEN parsed.val ELSE generateMockInsights(b, url)

ErrorResponse(status, msg) ==
    [status |-> status, success |-> FALSE, error |-> msg,
     insights |-> Undef, overallAIReadiness |-> Undef, topPriorities |-> Undef]

SuccessResponse(ins, overall, top) ==
    [status |-> 200, success |-> TRUE, error |-> "",
     insights |-> ins, overallAIReadiness |-> overall, topPriorities |-> top]

\* A catch block that reports the failure instead of substituting the mock.
PostCatchReportsError(b) == ErrorResponse(500, "AI analysis failed")

\* The catch block of POST: the body has been read already, so
\* request.clone() throws and the inner catch answers with the mock for the
\* default url.
PostCatch(b) ==
    LET mockData == generateMockInsights(b, DefaultUrl)
    IN  SuccessResponse(mockData.v.insights, mockData.v.overallAIReadiness,
                        mockData.v.topPriorities)

\* The tail of POST once generateAIInsights has returned insights.
PostRespond(b, insights) ==
    IF PropThrows(insights)
    THEN PostCatch(b)
    ELSE SuccessResponse(JsOr(Prop(insights, "insights"), Arr(<<>>)),
                         JsOr(Prop(insights, "overallAIReadiness"), Str("")),
                         JsOr(Prop(insights, "topPriorities"), Arr(<<>>)))

MaxTextLen == 3

RECURSIVE SeqsUpTo(_, _)
\* All sequences over S of length at most n.
SeqsUpTo(S, n) ==
    IF n = 0 THEN {<<>>}
    ELSE LET shorter == SeqsUpTo(S, n - 1)
         IN  shorter \cup {Append(q, x) : q \in shorter, x \in S}

Texts == SeqsUpTo(TextTokens, MaxTextLen)

ValidChecks ==
    Arr(<<Obj([id |-> Str("readability"), label |-> Str("Content Readability"),
               score |-> Num(80)]),
          Obj([id |-> Str("sitemap"), label |-> Str("Sitemap"), score |-> Num(0)])>>)

\* Request bodies: parse is what request.json() does with the body (it
\* throws on malformed JSON, yields null, or yields an object with the three
\* properties below, Undef standing for an absent one).
Bodies ==
    {[parse |-> "throws", url |-> Undef, htmlContent |-> Undef, currentChecks |-> Undef],
     [parse |-> "null", url |-> Undef, htmlContent |-> Undef, currentChecks |-> Undef]}
    \cup
    [parse : {"object"},
     url : {Undef, Str("")} \cup {Str(u) : u \in Urls},
     htmlContent : {Undef, Str(""), Str("<html><h1>t</h1></html>")},
     currentChecks : {Undef, ValidChecks, Str("none"), Arr(<<Null>>)}]

EnrichInit ==
    /\ build \in Builds
    /\ epc = "idle"
    /\ ebody = [parse |-> "throws", url |-> Undef, htmlContent |-> Undef,
                currentChecks |-> Undef]
    /\ egen = NotCalled
    /\ eresp = ErrorResponse(0, "none")

\* The enrichment entry point at rest.
EnrichOff ==
    /\ build = "part_001"
    /\ epc = "off"
    /\ ebody = [parse |-> "throws", url |-> Undef, htmlContent |-> Undef,
                currentChecks |-> Undef]
    /\ egen = NotCalled
    /\ eresp = ErrorResponse(0, "none")

\* The heuristic entry point at rest.
HeurOff ==
    /\ world = <<>>
    /\ hpc = "off"
    /\ hreq = <<>>
    /\ htmlChecks = <<>>
    /\ pstate = <<>>
    /\ robotsCheck = <<>>
    /\ sitemapCheck = <<>>
    /\ llmsCheck = <<>>
    /\ sitemapUrls = <<>>
    /\ candidates = <<>>
    /\ smIdx = 0
    /\ smPhase = "none"
    /\ reqLog = <<>>
    /\ hresp = <<>>
    /\ hbody = Undef
    /\ scrapeCalls = 0

FnIdle ==
    /\ fpc = "unused"
    /\ fin = <<>>
    /\ fout = <<>>

\* POST up to its first suspension on the capability: read and destructure
\* the body, validate it, build the prompt.
EnrichReceive(body) ==
    /\ epc = "idle"
    /\ ebody' = body
    /\ egen' = NotCalled
    /\ IF body.parse # "object"
       THEN /\ eresp' = PostCatch(build)
            /\ epc' = "responded"
       ELSE IF ~Truthy(body.url) \/ ~Truthy(body.htmlContent)
       THEN /\ eresp' = ErrorResponse(400, "URL and HTML content are required")
            /\ epc' = "responded"
       ELSE IF PromptThrows(JsOr(body.currentChecks, Arr(<<>>)))
       THEN /\ eresp' = PostRespond(build, generateMockInsights(build, body.url.v))
            /\ epc' = "responded"
       ELSE /\ eresp' = ErrorResponse(0, "none")
            /\ epc' = "awaitModel"
    /\ UNCHANGED <<build, fnVars, heurVars>>

\* model.generateContent(prompt) settles; the rest of the handler runs.
EnrichModelSettles(outcome) ==
    /\ epc = "awaitModel"
    /\ egen' = outcome
    /\ eresp' = PostRespond(build, generateGeminiInsights(build, ebody.url.v, outcome))
    /\ epc' = "responded"
    /\ UNCHANGED <<build, ebody, fnVars, heurVars>>

EnrichReceiveStep == \E body \in Bodies : EnrichReceive(body)

EnrichModelReturns == \E text \in Texts : EnrichModelSettles(Returned(text))

EnrichModelThrows == EnrichModelSettles(Threw)

EnrichNext == EnrichReceiveStep \/ EnrichModelReturns \/ EnrichModelThrows

EnrichSpecInit == EnrichInit /\ FnIdle /\ HeurOff

SpecEnrich == EnrichSpecInit /\ [][EnrichNext]_vars

---------------------------------------------------------------------------
(* Heuristic entry point: src/app/api/ai-readiness/route.ts *)

\* A hostname is a sequence of labels (the parts between dots); a label is a
\* sequence of chunks, runs of letters chosen so that every substring the
\* code looks for ("www", "docs", "developer", "api") is a whole chunk.
L(chunk) == <<chunk>>

Last(q) == q[Len(q)]

\* domain.replace('www.', ''): the first "www." goes, wherever it stands; the
\* rest of its label joins the label that follows.
RECURSIVE RemoveFirstWww(_)
RemoveFirstWww(host) ==
    IF Len(host) < 2 THEN host
    ELSE IF Last(Head(host)) = "www"
         THEN <<SubSeq(Head(host), 1, Len(Head(host)) - 1) \o host[2]>>
              \o Tail(Tail(host))
         ELSE <<Head(host)>> \o RemoveFirstWww(Tail(host))

\* cleanDomain.includes(word + '.')
IncludesWordDot(host, word) ==
    \E i \in 1..(Len(host) - 1) : Last(host[i]) = word

\* cleanDomain === d || cleanDomain.endsWith('.' + d)
EqualsOrSubdomain(host, d) ==
    /\ Len(host) >= Len(d)
    /\ SubSeq(host, Len(host) - Len(d) + 1, Len(host)) = d

Dom2(a, b) == <<L(a), L(b)>>
Dom3(a, b, c) == <<L(a), L(b), L(c)>>

topTierDomains ==
    {Dom2("vercel", "com"), Dom2("stripe", "com"), Dom2("github", "com"),
     Dom2("openai", "com"), Dom2("anthropic", "com"), Dom2("google", "com"),
     Dom2("microsoft", "com"), Dom2("apple", "com"), Dom3("aws", "amazon", "com"),
     Dom3("cloud", "google", "com"), Dom3("azure", "microsoft", "com"),
     Dom2("react", "dev"), Dom2("nextjs", "org"), Dom2("tailwindcss", "com")}

secondTierDomains ==
    {Dom2("netlify", "com"), Dom2("heroku", "com"), Dom2("digitalocean", "com"),
     Dom2("cloudflare", "com"), Dom2("twilio", "com"), Dom2("slack", "com"),
     Dom2("notion", "so"), Dom2("linear", "app"), Dom2("figma", "com")}

getDomainReputationBonus(domain) ==
    LET cleanDomain == RemoveFirstWww(domain)
    IN  IF \/ IncludesWordDot(cleanDomain, "docs")
           \/ IncludesWordDot(cleanDomain, "developer")
           \/ IncludesWordDot(cleanDomain, "api")
        THEN 20
        ELSE IF \E d \in topTierDomains : EqualsOrSubdomain(cleanDomain, d)
        THEN 18
        ELSE IF \E d \in secondTierDomains : EqualsOrSubdomain(cleanDomain, d)
        THEN 12
        ELSE 0

\* The ids of allChecks, in the order POST lists them.
CheckIds ==
    <<"llms-txt", "robots-txt", "sitemap", "heading-structure", "readability",
      "meta-tags", "semantic-html", "accessibility">>

\* The weights table, in tenths (1.5 is 15); an id the table lacks weighs 1.0.
WeightTenths(id) ==
    CASE id = "readability" -> 15
      [] id = "heading-structure" -> 14
      [] id = "meta-tags" -> 12
      [] id = "robots-txt" -> 9
      [] id = "sitemap" -> 8
      [] id = "llms-txt" -> 3
      [] id = "semantic-html" -> 10
      [] id = "accessibility" -> 9
      [] OTHER -> 10

RECURSIVE WeightedSum(_, _)
\* The accumulation loop over allChecks, from position i on:
\* weightedSum += check.score * weight
WeightedSum(checks, i) ==
    IF i > Len(checks) THEN 0
    ELSE checks[i].score * WeightTenths(checks[i].id) + WeightedSum(checks, i + 1)

RECURSIVE TotalWeight(_, _)
\* totalWeight += weight
TotalWeight(checks, i) ==
    IF i > Len(checks) THEN 0
    ELSE WeightTenths(checks[i].id) + TotalWeight(checks, i + 1)

\* Math.round(a / b) for a >= 0 and b > 0: halves round up.
RoundDiv(a, b) == (2 * a + b) \div (2 * b)

\* Math.round(weightedSum / totalWeight)
WeightedBase(allChecks) ==
    RoundDiv(WeightedSum(allChecks, 1), TotalWeight(allChecks, 1))

ContentIds == {"readability", "heading-structure", "meta-tags"}

\* A content bonus that is given for exactly two content signals only.
ContentBonusExactlyTwo(baseScore, allChecks) ==
    IF Cardinality({i \in 1..Len(allChecks) :
                       allChecks[i].id \in ContentIds /\ allChecks[i].score >= 60}) = 2
    THEN baseScore + 10
    ELSE baseScore

\* The content-signal bonus.
ContentBonus(baseScore, allChecks) ==
    LET contentSignals ==
            Cardinality({i \in 1..Len(allChecks) :
                            allChecks[i].id \in ContentIds /\ allChecks[i].score >= 60})
    IN  IF contentSignals >= 3 THEN baseScore + 15
        ELSE IF contentSignals >= 2 THEN baseScore + 10
        ELSE baseScore

\* A floor-raise that forgets to ask for a strong signal.
FloorRaiseUnconditional(baseScore, allChecks) ==
    IF baseScore < 35 THEN 35 ELSE baseScore

\* The floor-raise.
FloorRaise(baseScore, allChecks) ==
    IF baseScore < 35 /\ \E i \in 1..Len(allChecks) : allChecks[i].score >= 80
    THEN 35
    ELSE baseScore

Min(a, b) == IF a <= b THEN a ELSE b
Max(a, b) == IF a >= b THEN a ELSE b

\* The same steps with the floor-raise taken before the content bonus.
ComputeOverallRaiseFirst(allChecks, domain) ==
    LET weighted == WeightedBase(allChecks)
        raised == FloorRaise(weighted, allChecks)
        bonused == ContentBonus(raised, allChecks)
        reputationBonus == getDomainReputationBonus(domain)
    IN  [weighted |-> weighted, bonused |-> bonused, raised |-> bonused,
         reputationBonus |-> reputationBonus,
         overallScore |-> Min(100, bonused + reputationBonus)]

\* An aggregation that also reads the details of the first check.
ComputeOverallReadsDetails(allChecks, domain) ==
    LET weighted == WeightedBase(allChecks)
        bonused == ContentBonus(weighted, allChecks)
        raised == FloorRaise(bonused, allChecks)
        reputationBonus == getDomainReputationBonus(domain)
    IN  [weighted |-> weighted, bonused |-> bonused, raised |-> raised,
         reputationBonus |-> reputationBonus,
         overallScore |-> Min(100, raised + reputationBonus) - Len(allChecks[1].details)]

\* The score computation of POST, keeping each intermediate value of
\* baseScore next to the result.
ComputeOverall(allChecks, domain) ==
    LET weighted == WeightedBase(allChecks)
        bonused == ContentBonus(weighted, allChecks)
        raised == FloorRaise(bonused, allChecks)
        reputationBonus == getDomainReputationBonus(domain)
    IN  [weighted |-> weighted, bonused |-> bonused, raised |-> raised,
         reputationBonus |-> reputationBonus,
         overallScore |-> Min(100, raised + reputationBonus)]

---------------------------------------------------------------------------
(* HTML as the analyzers read it *)

\* A page is a sequence of tokens: the characters "<" and ">", the blank " ",
\* tag names (they follow a "<"), attributes, words, sentence ends and
\* entities.  Every substring the code searches for lies inside one token
\* or is "<" followed by a tag name.

\* The first position j >= i of q holding tok, or 0.
IndexFrom(q, i, tok) ==
    IF \E j \in i..Len(q) : q[j] = tok
    THEN CHOOSE j \in i..Len(q) : q[j] = tok /\ \A k \in i..(j - 1) : q[k] # tok
    ELSE 0

\* The digit captured by /<h([1-6])/i, 0 when the token is no heading name.
HeadingLevel(tok) ==
    CASE tok \in {"h1", "H1"} -> 1
      [] tok \in {"h2", "H2"} -> 2
      [] tok \in {"h3", "H3"} -> 3
      [] tok \in {"h4", "H4"} -> 4
      [] tok \in {"h5", "H5"} -> 5
      [] tok \in {"h6", "H6"} -> 6
      [] OTHER -> 0

\* The least member of a non-empty set of positions.
FirstIn(S) == CHOOSE x \in S : \A y \in S : x <= y

RECURSIVE MatchHeadings(_, _, _)
\* html.match(/<h[levels][^>]*>/gi) from position i on: the levels of the
\* matches, left to right.  A match starts at a "<" followed by a heading
\* name and runs to the first ">" after the name; the search goes on behind it.
MatchHeadings(html, i, levels) ==
    LET starts == {j \in i..(Len(html) - 1) :
                      /\ html[j] = "<"
                      /\ HeadingLevel(html[j + 1]) \in levels
                      /\ IndexFrom(html, j + 2, ">") # 0}
    IN  IF starts = {} THEN <<>>
        ELSE LET j == FirstIn(starts)
             IN  <<HeadingLevel(html[j + 1])>>
                 \o MatchHeadings(html, IndexFrom(html, j + 2, ">") + 1, levels)

\* tok.toLowerCase() for the tag names of script and style blocks.
LowerName(tok) ==
    CASE tok = "SCRIPT" -> "script"
      [] tok = "/SCRIPT" -> "/script"
      [] tok = "STYLE" -> "style"
      [] tok = "/STYLE" -> "/style"
      [] OTHER -> tok

\* The position of the "<" of the first closing tag </name> at or after i, or 0.
ClosingFrom(html, i, name) ==
    LET Closes(j) == /\ j + 2 <= Len(html)
                     /\ html[j] = "<"
                     /\ LowerName(html[j + 1]) = "/" \o name
                     /\ html[j + 2] = ">"
    IN  IF \E j \in i..Len(html) : Closes(j)
        THEN CHOOSE j \in i..Len(html) : Closes(j) /\ \A k \in i..(j - 1) : ~Closes(k)
        ELSE 0

RECURSIVE RemoveBlocks(_, _, _)
\* html.replace(/<name[^>]*>[\s\S]*?<\/name>/gi, '') from position i on: a
\* match starts at an opening tag that is closed and has a closing tag
\* behind it, and runs to the first such closing tag.
RemoveBlocks(html, i, name) ==
    LET Open(j) == IndexFrom(html, j + 2, ">")
        starts == {j \in i..(Len(html) - 1) :
                      /\ html[j] = "<"
                      /\ LowerName(html[j + 1]) = name
                      /\ Open(j) # 0
                      /\ ClosingFrom(html, Open(j) + 1, name) # 0}
    IN  IF starts = {} THEN SubSeq(html, i, Len(html))
        ELSE LET j == FirstIn(starts)
             IN  SubSeq(html, i, j - 1)
                 \o RemoveBlocks(html, ClosingFrom(html, Open(j) + 1, name) + 3, name)

RECURSIVE StripTags(_, _)
\* html.replace(/<[^>]+>/g, ' ') from position i on: a "<", at least one
\* token that is not ">", and the first ">" become one blank.
StripTags(html, i) ==
    LET starts == {j \in i..(Len(html) - 2) :
                      /\ html[j] = "<"
                      /\ html[j + 1] # ">"
                      /\ IndexFrom(html, j + 2, ">") # 0}
    IN  IF starts = {} THEN SubSeq(html, i, Len(html))
        ELSE LET j == FirstIn(starts)
             IN  SubSeq(html, i, j - 1) \o <<" ">>
                 \o StripTags(html, IndexFrom(html, j + 2, ">") + 1)

\* text.replace(/&name;/g, out): an entity is one token, or the "&" an
\* earlier replacement left followed by the token tail ("lt;" for "&lt;"),
\* two tokens that become one.
ReplaceEntity(text, entity, tail, out) ==
    LET PairAt(i) == i >= 1 /\ i < Len(text) /\ text[i] = "&" /\ text[i + 1] = tail
        kept == SelectSeq([i \in 1..Len(text) |-> i], LAMBDA i : ~PairAt(i - 1))
    IN  [j \in 1..Len(kept) |->
            IF text[kept[j]] = entity \/ PairAt(kept[j]) THEN out ELSE text[kept[j]]]

\* The chain of entity replacements, in the order of the source line.
DecodeEntities(text) ==
    LET t1 == ReplaceEntity(text, "&nbsp;", "nbsp;", " ")
        t2 == ReplaceEntity(t1, "&amp;", "amp;", "&")
        t3 == ReplaceEntity(t2, "&lt;", "lt;", "<")
        t4 == ReplaceEntity(t3, "&gt;", "gt;", ">")
        t5 == ReplaceEntity(t4, "&quot;", "quot;", "\"")
    IN  ReplaceEntity(t5, "&#39;", "#39;", "'")

\* text.replace(/\s+/g, ' '): of a run of blanks the first one stays.
CollapseBlanks(text) ==
    LET kept == SelectSeq([i \in 1..Len(text) |-> i],
                          LAMBDA i : ~(text[i] = " " /\ i > 1 /\ text[i - 1] = " "))
    IN  [j \in 1..Len(kept) |-> text[kept[j]]]

\* text.trim()
TrimBlanks(text) ==
    LET solid == {i \in 1..Len(text) : text[i] # " "}
    IN  IF solid = {} THEN <<>>
        ELSE SubSeq(text, CHOOSE i \in solid : \A j \in solid : i <= j,
                    CHOOSE i \in solid : \A j \in solid : i >= j)

extractTextContent(html) ==
    LET noScript == RemoveBlocks(html, 1, "script")
        noStyle == RemoveBlocks(noScript, 1, "style")
        noTags == StripTags(noStyle, 1)
    IN  TrimBlanks(CollapseBlanks(DecodeEntities(noTags)))

SentenceEnds == {".", "!", "?"}

RECURSIVE CountSentences(_, _)
\* text.split(/[.!?]+/).filter(s => s.trim().length > 0).length: the pieces
\* between sentence ends that hold something other than blanks.  inPiece
\* tells whether the piece being read already does.
CountSentences(text, inPiece) ==
    IF text = <<>> THEN (IF inPiece THEN 1 ELSE 0)
    ELSE IF Head(text) \in SentenceEnds
         THEN (IF inPiece THEN 1 ELSE 0) + CountSentences(Tail(text), FALSE)
         ELSE CountSentences(Tail(text), inPiece \/ Head(text) # " ")

\* The number of matches of /[aeiouAEIOU]+/g inside one token.
VowelClusters(tok) ==
    CASE tok \in {"cat", "the", "sat", "react", "vue"} -> 1
      [] tok \in {"simple", "reading", "svelte"} -> 2
      [] tok \in {"banana", "readable"} -> 3
      [] tok \in {"documentation", "university"} -> 5
      [] tok \in {"incomprehensibilities"} -> 9
      [] OTHER -> 0

RECURSIVE WordClusters(_)
\* text.split(/\s+/).filter(w => w.length > 0), each word given as its
\* number of vowel clusters: a word is a run of tokens without a blank.
WordClusters(text) ==
    IF text = <<>> THEN <<>>
    ELSE IF Head(text) = " " THEN WordClusters(Tail(text))
    ELSE LET blank == IndexFrom(text, 1, " ")
             word == IF blank = 0 THEN text ELSE SubSeq(text, 1, blank - 1)
             rest == IF blank = 0 THEN <<>> ELSE SubSeq(text, blank, Len(text))
             RECURSIVE Clusters(_)
             Clusters(w) == IF w = <<>> THEN 0
                            ELSE VowelClusters(Head(w)) + Clusters(Tail(w))
         IN  <<Clusters(word)>> \o WordClusters(rest)

RECURSIVE SyllableReduce(_, _)
\* words.reduce((acc, word) => acc + matches.length || 1, 0): the sum is
\* taken first and replaced by 1 only when it is 0.
SyllableReduce(clusters, acc) ==
    IF clusters = <<>> THEN acc
    ELSE LET sum == acc + Head(clusters)
         IN  SyllableReduce(Tail(clusters), IF sum # 0 THEN sum ELSE 1)

\* The Flesch value as an exact fraction num / den (den > 0), before the
\* clamp: 206.835 - 1.015 * words / sentences - 84.6 * syllables / words.
FleschFraction(sentences, words, syllables) ==
    [num |-> 206835 * sentences * words - 1015 * words * words
             - 84600 * syllables * sentences,
     den |-> 1000 * sentences * words]

\* A scorer without the return for text that has no sentence or no word:
\* the division by zero yields a value the clamp turns into 100.
calculateReadabilityUnguarded(text) ==
    LET sentences == CountSentences(text, FALSE)
        clusters == WordClusters(text)
        words == Len(clusters)
        raw == FleschFraction(sentences, words, SyllableReduce(clusters, 0))
    IN  IF sentences = 0 \/ words = 0 THEN [num |-> 100, den |-> 1]
        ELSE IF raw.num < 0 THEN [num |-> 0, den |-> 1]
        ELSE IF raw.num > 100 * raw.den THEN [num |-> 100, den |-> 1]
        ELSE raw

\* calculateReadability(text) as a fraction, clamped to [0, 100].
calculateReadability(text) ==
    LET sentences == CountSentences(text, FALSE)
        clusters == WordClusters(text)
        words == Len(clusters)
        syllables == SyllableReduce(clusters, 0)
        raw == FleschFraction(sentences, words, syllables)
    IN  IF sentences = 0 \/ words = 0 THEN [num |-> 0, den |-> 1]
        ELSE IF raw.num < 0 THEN [num |-> 0, den |-> 1]
        ELSE IF raw.num > 100 * raw.den THEN [num |-> 100, den |-> 1]
        ELSE raw

\* fraction >= n
FracGeq(f, n) == f.num >= n * f.den

\* Math.round(fraction) for a non-negative fraction.
FracRound(f) == RoundDiv(f.num, f.den)

\* The searched substrings that occur inside one token.
Parts(tok) ==
    CASE tok = "property=\"og:title\"" -> {"og:title"}
      [] tok = "property=\"og:description\"" -> {"og:description"}
      [] tok = "name=\"description\"" -> {"name=\"description\""}
      [] tok = "name=\"author\"" -> {"name=\"author\""}
      [] tok = "property=\"article:author\"" -> {"property=\"article:author\""}
      [] tok = "property=\"article:published_time\"" ->
            {"property=\"article:published_time\""}
      [] tok = "property=\"article:modified_time\"" ->
            {"property=\"article:modified_time\""}
      [] tok = "role=\"x\"" -> {"role=\""}
      [] tok = "aria-label=\"x\"" -> {"aria-", "aria-label"}
      [] tok = "aria-labelledby=\"x\"" -> {"aria-", "aria-label"}
      [] tok = "aria-describedby=\"x\"" -> {"aria-", "aria-describedby"}
      [] tok = "aria-hidden=\"true\"" -> {"aria-"}
      [] tok = "lang=\"en\"" -> {"lang=\""}
      [] tok = "alt=\"x\"" -> {"alt=\""}
      [] tok = "id=\"__next\"" -> {"__next"}
      [] tok = "src=\"/_app.js\"" -> {"_app"}
      [] tok = "react" -> {"react"}
      [] tok = "vue" -> {"vue"}
      [] tok = "svelte" -> {"svelte"}
      [] OTHER -> {}

\* html.includes(marker) for a marker inside a token.
Includes(html, marker) == \E i \in 1..Len(html) : marker \in Parts(html[i])

\* html.includes('<' + name)
IncludesTag(html, name) ==
    \E i \in 1..(Len(html) - 1) : html[i] = "<" /\ html[i + 1] = name

\* (html.match(/<img/g) || []).length
CountTag(html, name) ==
    Cardinality({i \in 1..(Len(html) - 1) : html[i] = "<" /\ html[i + 1] = name})

\* (html.match(/alt="/g) || []).length
CountPart(html, marker) ==
    Cardinality({i \in 1..Len(html) : marker \in Parts(html[i])})

\* The length of the value captured by /content="([^"]*)"/i in a token, -1
\* for a token that is no content attribute.
ContentLength(tok) ==
    CASE tok = "content=\"\"" -> 0
      [] tok = "content=\"width=device-width\"" -> 18
      [] tok = "content=\"(69 characters)\"" -> 69
      [] tok = "content=\"(70 characters)\"" -> 70
      [] tok = "content=\"(160 characters)\"" -> 160
      [] tok = "content=\"(161 characters)\"" -> 161
      [] OTHER -> 0 - 1

\* descMatch?.[1]?.length || 0: the first content attribute of the page.
FirstContentLength(html) ==
    IF \E i \in 1..Len(html) : ContentLength(html[i]) >= 0
    THEN LET i == CHOOSE j \in 1..Len(html) :
                      /\ ContentLength(html[j]) >= 0
                      /\ \A k \in 1..(j - 1) : ContentLength(html[k]) < 0
         IN  ContentLength(html[i])
    ELSE 0

CheckResult(id, label, status, score, details, recommendation) ==
    [id |-> id, label |-> label, status |-> status, score |-> score,
     details |-> details, recommendation |-> recommendation]

\* score >= pass ? 'pass' : score >= warn ? 'warning' : 'fail'
StatusOf(score, pass, warn) ==
    IF score >= pass THEN "pass" ELSE IF score >= warn THEN "warning" ELSE "fail"

\* A loop that counts every pair of neighbours whose levels differ.
HeadingSkipsAnyChange(levels, i) ==
    [k \in 1..Cardinality({j \in i..Len(levels) : levels[j] # levels[j - 1]}) |->
        "Skipped heading level"]

RECURSIVE HeadingSkips(_, _)
\* The loop over headingLevels from index i on: one entry per pair whose
\* level rises by more than 1.  The arrows of the texts are written "->".
HeadingSkips(levels, i) ==
    IF i > Len(levels) THEN <<>>
    ELSE (IF levels[i] - levels[i - 1] > 1
          THEN <<"Skipped heading level (H" \o ToString(levels[i - 1]) \o " -> H"
                 \o ToString(levels[i]) \o ")">>
          ELSE <<>>)
         \o HeadingSkips(levels, i + 1)

HeadingCheck(html) ==
    LET h1Count == Len(MatchHeadings(html, 1, {1}))
        headingLevels == MatchHeadings(html, 1, 1..6)
        h1Issues == IF h1Count = 0 THEN <<"No H1 found">>
                    ELSE IF h1Count > 1
                    THEN <<"Multiple H1s (" \o ToString(h1Count)
                           \o ") create topic ambiguity">>
                    ELSE <<>>
        h1Penalty == IF h1Count = 0 THEN 40 ELSE IF h1Count > 1 THEN 30 ELSE 0
        skips == HeadingSkips(headingLevels, 2)
        headingIssues == h1Issues \o skips
        headingScore == Max(0, 100 - h1Penalty - 15 * Len(skips))
    IN  CheckResult("heading-structure", "Heading Hierarchy",
                    StatusOf(headingScore, 80, 50), headingScore,
                    IF Len(headingIssues) > 0 THEN headingIssues
                    ELSE <<"Perfect hierarchy with " \o ToString(h1Count)
                           \o " H1 and logical structure">>,
                    IF headingScore < 80
                    THEN "Use exactly one H1 and maintain logical heading hierarchy (H1->H2->H3)"
                    ELSE "Excellent heading structure for AI comprehension")

ReadabilityCheck(textContent) ==
    LET readabilityScore == calculateReadability(textContent)
        flesch == "(Flesch: " \o ToString(FracRound(readabilityScore)) \o ")"
        band == IF FracGeq(readabilityScore, 70)
                THEN [score |-> 100, status |-> "pass", details |-> "Very readable"]
                ELSE IF FracGeq(readabilityScore, 50)
                THEN [score |-> 80, status |-> "pass", details |-> "Good readability"]
                ELSE IF FracGeq(readabilityScore, 30)
                THEN [score |-> 50, status |-> "warning", details |-> "Difficult to read"]
                ELSE [score |-> 20, status |-> "fail", details |-> "Very difficult"]
    IN  CheckResult("readability", "Content Readability", band.status, band.score,
                    <<band.details, flesch>>,
                    IF band.score < 80
                    THEN "Simplify sentences and use clearer language for better AI comprehension"
                    ELSE "Content is clearly written and AI-friendly")

\* A metadata score that is not clamped.
MetaNoClamp(metaScore) == metaScore

\* metaScore = Math.min(100, metaScore)
MetaClamp(metaScore) == Min(100, metaScore)

MetaCheck(html, metadata) ==
    LET hasOgTitle == \/ Truthy(metadata.ogTitle) \/ Truthy(metadata.title)
                      \/ Includes(html, "og:title") \/ IncludesTag(html, "title")
        hasOgDescription == \/ Truthy(metadata.ogDescription)
                            \/ Truthy(metadata.description)
                            \/ Includes(html, "og:description")
                            \/ Includes(html, "name=\"description\"")
        descLength == FirstContentLength(html)
        hasGoodDescLength == descLength >= 70 /\ descLength <= 160
        hasAuthor == \/ Includes(html, "name=\"author\"")
                     \/ Includes(html, "property=\"article:author\"")
        hasPublishDate == \/ Includes(html, "property=\"article:published_time\"")
                          \/ Includes(html, "property=\"article:modified_time\"")
        titlePart == IF hasOgTitle THEN [add |-> 30, details |-> <<"Title +">>]
                     ELSE IF IncludesTag(html, "title")
                     THEN [add |-> 20, details |-> <<"Basic title">>]
                     ELSE [add |-> 0, details |-> <<>>]
        descPart == IF hasOgDescription
                    THEN IF hasGoodDescLength
                         THEN [add |-> 35, details |-> <<"Description +">>]
                         ELSE [add |-> 25, details |-> <<"Description">>]
                    ELSE [add |-> 0, details |-> <<>>]
        authorPart == IF hasAuthor THEN [add |-> 10, details |-> <<"Author +">>]
                      ELSE [add |-> 0, details |-> <<>>]
        datePart == IF hasPublishDate THEN [add |-> 10, details |-> <<"Date +">>]
                    ELSE [add |-> 0, details |-> <<>>]
        metaDetails == titlePart.details \o descPart.details \o authorPart.details
                       \o datePart.details
        metaScore == MetaClamp(30 + titlePart.add + descPart.add + authorPart.add
                               + datePart.add)
    IN  CheckResult("meta-tags", "Metadata Quality", StatusOf(metaScore, 70, 40),
                    metaScore,
                    IF Len(metaDetails) > 0 THEN metaDetails
                    ELSE <<"Missing critical metadata">>,
                    IF metaScore < 70
                    THEN "Add title, description (70-160 chars), author, and publish date metadata"
                    ELSE "Metadata provides excellent context for AI")

semanticTags == {"article", "nav", "main", "section", "header", "footer", "aside"}

SemanticCheck(html) ==
    LET semanticCount == Cardinality({tag \in semanticTags : IncludesTag(html, tag)})
        hasAriaRoles == Includes(html, "role=\"") \/ Includes(html, "aria-")
        isModernFramework == \/ Includes(html, "__next") \/ Includes(html, "_app")
                             \/ Includes(html, "react") \/ Includes(html, "vue")
                             \/ Includes(html, "svelte")
        \* (semanticCount / 5) * 60 is 12 * semanticCount
        semanticScore == Min(100, 12 * semanticCount
                                  + (IF hasAriaRoles THEN 20 ELSE 0)
                                  + (IF isModernFramework THEN 20 ELSE 0))
    IN  CheckResult("semantic-html", "Semantic HTML", StatusOf(semanticScore, 80, 40),
                    semanticScore,
                    <<"Found " \o ToString(semanticCount) \o " semantic HTML5 elements">>,
                    IF semanticScore < 80
                    THEN "Use more semantic HTML5 elements (article, nav, main, section, etc.)"
                    ELSE "Excellent use of semantic HTML")

\* The status of the accessibility check: derived from the score as
\* computed, a fraction, before it is rounded.
AccessibilityStatus(accessibilityScore) ==
    IF FracGeq(accessibilityScore, 80) THEN "pass"
    ELSE IF FracGeq(accessibilityScore, 50) THEN "warning"
    ELSE "fail"

AccessibilityCheck(html) ==
    LET hasAltText == CountPart(html, "alt=\"")
        imgCount == CountTag(html, "img")
        \* altTextRatio, a percentage, as a fraction
        altTextRatio == IF imgCount > 0
                        THEN [num |-> hasAltText * 100, den |-> imgCount]
                        ELSE [num |-> 100, den |-> 1]
        hasAriaLabels == Includes(html, "aria-label")
        hasAriaDescribedBy == Includes(html, "aria-describedby")
        hasRole == Includes(html, "role=\"")
        hasLangAttribute == Includes(html, "lang=\"")
        bonus == (IF hasAriaLabels THEN 20 ELSE 0)
                 + (IF hasAriaDescribedBy THEN 10 ELSE 0)
                 + (IF hasRole THEN 15 ELSE 0) + (IF hasLangAttribute THEN 15 ELSE 0)
        \* imageScore + bonus: imageScore is 40 or altTextRatio * 0.4
        sum == IF imgCount = 0
               THEN [num |-> 40 + bonus, den |-> 1]
               ELSE [num |-> hasAltText * 40 + bonus * imgCount, den |-> imgCount]
        accessibilityScore == IF FracGeq(sum, 100) THEN [num |-> 100, den |-> 1] ELSE sum
    IN  CheckResult("accessibility", "Accessibility",
                    AccessibilityStatus(accessibilityScore),
                    FracRound(accessibilityScore),
                    <<ToString(FracRound(altTextRatio)) \o "% images have alt text",
                      "ARIA labels: " \o (IF hasAriaLabels THEN "Yes" ELSE "No")>>,
                    IF ~FracGeq(accessibilityScore, 80)
                    THEN "Add alt text to all images and use ARIA labels for interactive elements"
                    ELSE "Good accessibility implementation")

\* analyzeHTML(html, metadata): the five content checks, in the order pushed.
analyzeHTML(html, metadata) ==
    LET textContent == extractTextContent(html)
    IN  <<HeadingCheck(html), ReadabilityCheck(textContent), MetaCheck(html, metadata),
          SemanticCheck(html), AccessibilityCheck(html)>>

---------------------------------------------------------------------------
(* The auxiliary files as the prober reads them *)

\* A response body: its length in characters, the searched substrings it
\* holds (as written, in their letter case), and for robots.txt its lines.
Body(len, parts, lines) == [len |-> len, parts |-> parts, lines |-> lines]

\* part.toLowerCase()
LowerPart(part) ==
    CASE part = "404 Not Found" -> "404 not found"
      [] part = "Page Not Found" -> "page not found"
      [] part = "Cannot be found" -> "cannot be found"
      [] part = "<HTML" -> "<html"
      [] part = "<Html" -> "<html"
      [] part = "<!DOCTYPE html" -> "<!doctype html"
      [] part = "<!DOCTYPE" -> "<!doctype"
      [] OTHER -> part

\* The searched substrings inside a part.
SubParts(part) ==
    CASE part = "<!DOCTYPE html" -> {"<!DOCTYPE html", "<!DOCTYPE"}
      [] part = "<!doctype html" -> {"<!doctype html", "<!doctype"}
      [] OTHER -> {part}

\* text.includes(marker)
BodyIncludes(body, marker) == \E part \in body.parts : marker \in SubParts(part)

\* text.toLowerCase().includes(marker)
BodyIncludesLower(body, marker) ==
    \E part \in body.parts : marker \in SubParts(LowerPart(part))

\* A line of robots.txt: a field name as written and its value.
Line(field, value) == [field |-> field, value |-> value]

\* field.toLowerCase()
LowerField(field) ==
    CASE field \in {"User-agent", "USER-AGENT", "user-agent"} -> "user-agent"
      [] field \in {"Sitemap", "SITEMAP", "sitemap"} -> "sitemap"
      [] OTHER -> field

\* robotsText.toLowerCase().includes('user-agent')
hasUserAgent(body) ==
    \E i \in 1..Len(body.lines) : LowerField(body.lines[i].field) = "user-agent"

\* The text of a line as written.
LineText(ln) == IF ln.value = "" THEN ln.field \o ":" ELSE ln.field \o ": " \o ln.value

RECURSIVE SitemapMatches(_, _)
\* robotsText.match(/Sitemap:\s*(.+)/gi) mapped to the trimmed urls, from line
\* i on.  The blanks after the colon may run over the end of the line: a
\* directive without a value captures the line that follows it.
SitemapMatches(lines, i) ==
    IF i > Len(lines) THEN <<>>
    ELSE IF LowerField(lines[i].field) # "sitemap" THEN SitemapMatches(lines, i + 1)
    ELSE IF lines[i].value # "" THEN <<lines[i].value>> \o SitemapMatches(lines, i + 1)
    ELSE IF i < Len(lines) THEN <<LineText(lines[i + 1])>> \o SitemapMatches(lines, i + 2)
    ELSE <<>>

SitemapDirectives(body) == SitemapMatches(body.lines, 1)

\* The robots check built from a body that was read.
RobotsFound(body) ==
    LET declared == SitemapDirectives(body)
        hasSitemap == Len(declared) > 0
        score == (IF hasUserAgent(body) THEN 60 ELSE 0) + (IF hasSitemap THEN 40 ELSE 0)
    IN  CheckResult("robots-txt", "Robots.txt", StatusOf(score, 80, 40), score,
                    IF hasSitemap
                    THEN <<"Robots.txt found", "with " \o ToString(Len(declared))
                                               \o " sitemap reference(s)">>
                    ELSE <<"Robots.txt found">>,
                    IF score < 80 THEN "Add sitemap reference to robots.txt"
                    ELSE "Robots.txt properly configured")

isValidLlms(body) ==
    /\ body.len > 10
    /\ ~BodyIncludes(body, "<!DOCTYPE")
    /\ ~BodyIncludes(body, "<html")
    /\ ~BodyIncludes(body, "<HTML")
    /\ ~BodyIncludesLower(body, "404 not found")
    /\ ~BodyIncludesLower(body, "page not found")
    /\ ~BodyIncludesLower(body, "cannot be found")

isValidSitemap(body) ==
    /\ \/ BodyIncludes(body, "<?xml") \/ BodyIncludes(body, "<urlset")
       \/ BodyIncludes(body, "<sitemapindex") \/ BodyIncludes(body, "<url>")
       \/ BodyIncludes(body, "<sitemap>")
    /\ ~BodyIncludes(body, "<!DOCTYPE html")

RobotsDefault ==
    CheckResult("robots-txt", "Robots.txt", "fail", 0, <<"No robots.txt file found">>,
                "Create a robots.txt file with AI crawler directives")

SitemapDefault ==
    CheckResult("sitemap", "Sitemap", "fail", 0, <<"No sitemap.xml found">>,
                "Generate and submit an XML sitemap")

LlmsDefault ==
    CheckResult("llms-txt", "LLMs.txt", "fail", 0, <<"No llms.txt file found">>,
                "Add an llms.txt file to define AI usage permissions")

LlmsFound(filename) ==
    CheckResult("llms-txt", "LLMs.txt", "pass", 100,
                <<filename \o " file found with AI usage guidelines">>,
                "Great! You have defined AI usage permissions")

commonPaths ==
    <<"/sitemap.xml", "/sitemap_index.xml", "/sitemap-index.xml",
      "/sitemaps/sitemap.xml", "/sitemap/sitemap.xml">>

\* sitemapUrl.replace(cleanUrl, '') for a common location on the origin; a
\* url elsewhere is left as it is.
PathOn(sitemapUrl, cleanUrl) ==
    IF \E i \in 1..Len(commonPaths) : cleanUrl \o commonPaths[i] = sitemapUrl
    THEN commonPaths[CHOOSE i \in 1..Len(commonPaths) :
                         cleanUrl \o commonPaths[i] = sitemapUrl]
    ELSE sitemapUrl

\* A sitemap check that names the path of the candidate wherever it came from.
SitemapFoundAtPath(sitemapUrl, declared, cleanUrl) ==
    CheckResult("sitemap", "Sitemap", "pass", 100,
                <<"Valid XML sitemap found", "at " \o PathOn(sitemapUrl, cleanUrl)>>,
                "Sitemap is properly configured")

\* The sitemap check for a candidate that validated.
SitemapFound(sitemapUrl, declared, cleanUrl) ==
    LET fromRobots == \E i \in 1..Len(declared) : declared[i] = sitemapUrl
        path == PathOn(sitemapUrl, cleanUrl)
    IN  CheckResult("sitemap", "Sitemap", "pass", 100,
                    IF fromRobots
                    THEN <<"Valid XML sitemap found", "(referenced in robots.txt)">>
                    ELSE <<"Valid XML sitemap found", "at " \o path>>,
                    "Sitemap is properly configured")

llmsFilenames == <<"llms.txt", "LLMs.txt", "llms-full.txt">>

RECURSIVE AppendMissing(_, _)
\* for (const url of commonLocations) if (!list.includes(url)) list.push(url)
AppendMissing(list, more) ==
    IF more = <<>> THEN list
    ELSE IF \E i \in 1..Len(list) : list[i] = Head(more)
         THEN AppendMissing(list, Tail(more))
         ELSE AppendMissing(Append(list, Head(more)), Tail(more))

\* possibleSitemapUrls: the urls robots.txt declared, then the common
\* locations on the origin that are not in the list yet.
possibleSitemapUrls(declared, cleanUrl) ==
    AppendMissing(declared, [i \in 1..Len(commonPaths) |-> cleanUrl \o commonPaths[i]])

---------------------------------------------------------------------------
(* Pages the scraper can hand to analyzeHTML *)

RECURSIVE Attrs(_)
\* Attributes inside a tag, each after a blank.
Attrs(attrs) ==
    IF attrs = <<>> THEN <<>> ELSE <<" ", Head(attrs)>> \o Attrs(Tail(attrs))

Tag(name, attrs) == <<"<", name>> \o Attrs(attrs) \o <<">">>

Element(name, attrs, inner) == Tag(name, attrs) \o inner \o Tag("/" \o name, <<>>)

RECURSIVE Repeat(_, _)
Repeat(q, n) == IF n = 0 THEN <<>> ELSE q \o Repeat(q, n - 1)

RECURSIVE Words(_)
\* Words and sentence ends written one after another, a blank before each word.
Words(items) ==
    IF items = <<>> THEN <<>>
    ELSE (IF Head(items) \in SentenceEnds THEN <<Head(items)>> ELSE <<" ", Head(items)>>)
         \o Words(Tail(items))

\* The metadata object of a scrape result: absent properties are undefined.
Metadata(title, description) ==
    [ogTitle |-> Undef, title |-> title, ogDescription |-> Undef,
     description |-> description]

NoMetadata == Metadata(Undef, Undef)

Page(html, metadata) == [html |-> html, metadata |-> metadata]

MaxHeadings == 3
MaxPairs == 5

HeadingName(level) == "h" \o ToString(level)

RECURSIVE Headings(_)
Headings(levels) ==
    IF levels = <<>> THEN <<>>
    ELSE Element(HeadingName(Head(levels)), <<>>, <<"cat">>) \o Headings(Tail(levels))

\* Pages of headings: every short sequence of levels, and long runs of a
\* rising pair that drive the score below zero before it is clamped.
HeadingPages ==
    {Page(Headings(levels), NoMetadata) : levels \in SeqsUpTo(1..6, MaxHeadings)}
    \cup {Page(Headings(Repeat(pair, n)), NoMetadata) :
             pair \in {<<1, 3>>, <<2, 4>>}, n \in 1..MaxPairs}
    \cup {Page(Tag("H1", <<"id=\"top\"">>) \o <<"cat">> \o Tag("/H1", <<>>)
               \o <<"<", "h2">>, NoMetadata)}

MaxImages == 15

\* The attribute sets tried: one for each combination of the four bonuses.
AccessAttrSets ==
    {<<>>, <<"aria-label=\"x\"">>, <<"aria-labelledby=\"x\"">>,
     <<"aria-describedby=\"x\"">>, <<"role=\"x\"">>, <<"lang=\"en\"">>,
     <<"aria-label=\"x\"", "aria-describedby=\"x\"">>,
     <<"aria-label=\"x\"", "role=\"x\"">>, <<"aria-label=\"x\"", "lang=\"en\"">>,
     <<"aria-describedby=\"x\"", "role=\"x\"">>,
     <<"aria-describedby=\"x\"", "lang=\"en\"">>, <<"role=\"x\"", "lang=\"en\"">>,
     <<"aria-label=\"x\"", "aria-describedby=\"x\"", "role=\"x\"">>,
     <<"aria-label=\"x\"", "aria-describedby=\"x\"", "lang=\"en\"">>,
     <<"aria-label=\"x\"", "role=\"x\"", "lang=\"en\"">>,
     <<"aria-describedby=\"x\"", "role=\"x\"", "lang=\"en\"">>,
     <<"aria-label=\"x\"", "aria-describedby=\"x\"", "role=\"x\"", "lang=\"en\"">>}

\* Pages of images: nAlt of the nImg images carry an alt text, and one
\* element carries the attributes.
ImagePage(nImg, nAlt, attrs) ==
    Page(Tag("div", attrs) \o Repeat(Tag("img", <<"alt=\"x\"">>), nAlt)
         \o Repeat(Tag("img", <<>>), nImg - nAlt) \o Tag("/div", <<>>),
         NoMetadata)

\* More alt texts than images: the alt texts of other elements count too.
AltHeavyPage ==
    Page(Tag("img", <<"alt=\"x\"">>) \o Repeat(Tag("input", <<"alt=\"x\"">>), 2),
         NoMetadata)

AccessPages ==
    UNION {{ImagePage(nImg, nAlt, attrs) : nAlt \in 0..nImg, attrs \in AccessAttrSets} :
              nImg \in 0..MaxImages}
    \cup {AltHeavyPage}

\* Pages of metadata markers: a title marker, a description marker, the first
\* content attribute of the page, an author, a date, and the scraped metadata.
TitleMarkers == {<<>>, Element("title", <<>>, <<"cat">>),
                 Tag("meta", <<"property=\"og:title\"", "content=\"\"">>)}

DescriptionMarkers ==
    {<<>>} \cup
    {Tag("meta", <<marker, content>>) :
        marker \in {"name=\"description\"", "property=\"og:description\""},
        content \in {"content=\"(69 characters)\"", "content=\"(70 characters)\"",
                     "content=\"(160 characters)\"", "content=\"(161 characters)\""}}
    \cup {Tag("meta", <<"name=\"viewport\"", "content=\"width=device-width\"">>)
          \o Tag("meta", <<"name=\"description\"", "content=\"(70 characters)\"">>)}

AuthorMarkers == {<<>>, Tag("meta", <<"name=\"author\"", "content=\"\"">>),
                  Tag("meta", <<"property=\"article:author\"", "content=\"\"">>)}

DateMarkers == {<<>>, Tag("meta", <<"property=\"article:published_time\"", "content=\"\"">>)}

Metadatas ==
    {NoMetadata, Metadata(Str("A title"), Str("")), Metadata(Null, Str("A description"))}

MetaPages ==
    {Page(description \o title \o author \o date, metadata) :
        description \in DescriptionMarkers, title \in TitleMarkers,
        author \in AuthorMarkers, date \in DateMarkers, metadata \in Metadatas}

\* Pages of semantic elements: the first n of the seven tags, an attribute
\* and a framework marker.
semanticTagOrder == <<"article", "nav", "main", "section", "header", "footer", "aside">>

RECURSIVE SemanticElements(_)
SemanticElements(n) ==
    IF n = 0 THEN <<>>
    ELSE SemanticElements(n - 1) \o Element(semanticTagOrder[n], <<>>, <<>>)

SemanticPages ==
    {Page(Tag("div", attrs) \o SemanticElements(n) \o framework, NoMetadata) :
        n \in 0..Len(semanticTagOrder),
        attrs \in {<<>>, <<"role=\"x\"">>, <<"aria-hidden=\"true\"">>},
        framework \in {<<>>, Tag("div", <<"id=\"__next\"">>), <<" ", "react">>,
                       Tag("script", <<"src=\"/_app.js\"">>) \o Tag("/script", <<>>)}}

MaxWords == 3

\* Pages of prose: short runs of words and sentence ends, bare or inside a
\* paragraph, and pages whose words sit in script and style blocks or are
\* written as entities.
ProsePages ==
    {Page(Words(items), NoMetadata) :
        items \in SeqsUpTo({"cat", "banana", "incomprehensibilities", "."}, MaxWords)}
    \cup {Page(Element("p", <<>>, Words(<<"banana", "cat", "cat", ".">>)), NoMetadata),
          Page(Element("script", <<>>, Words(<<"incomprehensibilities">>))
               \o Element("STYLE", <<>>, Words(<<"incomprehensibilities">>))
               \o Element("p", <<>>, Words(<<"cat", "sat", "!">>)), NoMetadata),
          Page(Tag("script", <<>>) \o Words(<<"cat">>), NoMetadata),
          Page(<<"cat", "&nbsp;", "sat", "&amp;", "lt;", "banana", "&lt;", "&gt;", "&quot;",
                 "&#39;", "?">>, NoMetadata)}

\* A page that earns every metadata addition, and a page that earns none.
RichPage ==
    Page(Tag("html", <<"lang=\"en\"">>)
         \o Element("title", <<>>, <<"cat">>)
         \o Tag("meta", <<"name=\"description\"", "content=\"(70 characters)\"">>)
         \o Tag("meta", <<"name=\"author\"", "content=\"\"">>)
         \o Tag("meta", <<"property=\"article:published_time\"", "content=\"\"">>)
         \o Tag("main", <<"role=\"x\"", "aria-label=\"x\"", "aria-describedby=\"x\"">>)
         \o SemanticElements(5)
         \o Element("h1", <<>>, <<"cat">>) \o Element("h2", <<>>, <<"cat">>)
         \o Element("p", <<>>, Words(<<"the", "cat", "sat", ".">>))
         \o Tag("img", <<"alt=\"x\"">>) \o Tag("/main", <<>>) \o Tag("/html", <<>>),
         Metadata(Str("A title"), Str("A description")))

PlainPage == Page(<<" ", "cat">>, NoMetadata)

FamilyPages ==
    HeadingPages \cup AccessPages \cup MetaPages \cup SemanticPages \cup ProsePages

---------------------------------------------------------------------------
(* The site and its host *)

\* What the page-fetch collaborator does for the site: it throws, or it
\* returns a result holding the html under one of three properties (an empty
\* sequence is an empty or absent string) and the metadata under one of two
\* (Undef is an absent object).
ScrapeResult(html, dataHtml, content, metadata, dataMetadata) ==
    [html |-> html, dataHtml |-> dataHtml, content |-> content, metadata |-> metadata,
     dataMetadata |-> dataMetadata]

Site(scrape, result) == [scrape |-> scrape, result |-> result]

NoResult == ScrapeResult(<<>>, <<>>, <<>>, Undef, Undef)

\* The site of a page, as the collaborator usually returns it.
SiteOf(page) ==
    Site("ok", ScrapeResult(page.html, <<>>, <<>>, Obj(page.metadata), Undef))

\* scrapeResult?.html || scrapeResult?.data?.html || scrapeResult?.content || ''
ResultHtml(result) ==
    IF result.html # <<>> THEN result.html
    ELSE IF result.dataHtml # <<>> THEN result.dataHtml
    ELSE result.content

\* scrapeResult?.metadata || scrapeResult?.data?.metadata || {}
ResultMetadata(result) ==
    IF Truthy(result.metadata) THEN result.metadata.v
    ELSE IF Truthy(result.dataMetadata) THEN result.dataMetadata.v
    ELSE NoMetadata

\* What a url of the host answers to a fetch: the fetch resolves ("ok"),
\* rejects ("error") or is aborted by the timer ("timeout"); a resolved
\* response is OK or not; reading its body yields the body ("ok"), throws
\* ("error") or never ends ("hang"): the timer is cleared when the fetch
\* resolves, so nothing ends a body the host does not finish.
Response(fetch, ok, read, body) == [fetch |-> fetch, ok |-> ok, read |-> read, body |-> body]

NoBody == Body(0, {}, <<>>)

Unreachable == Response("error", FALSE, "ok", NoBody)

Served(body) == Response("ok", TRUE, "ok", body)

\* The ways a probe of a url serving body can go.
Outcomes(body) ==
    {Served(body), Response("error", TRUE, "ok", body), Response("timeout", TRUE, "ok", body),
     Response("ok", FALSE, "ok", body), Response("ok", TRUE, "error", body),
     Response("ok", TRUE, "hang", body)}

Failed(resp) == resp.fetch # "ok" \/ ~resp.ok \/ resp.read # "ok"

LlmsGuide == Body(120, {}, <<>>)
ShortBody == Body(10, {}, <<>>)
HtmlNotFound == Body(300, {"<!DOCTYPE html", "<html", "404 Not Found"}, <<>>)
UpperHtml == Body(200, {"<HTML"}, <<>>)
LowerDoctype == Body(200, {"<!doctype html"}, <<>>)
TextNotFound == Body(40, {"Page Not Found"}, <<>>)
TextCannotBeFound == Body(40, {"Cannot be found"}, <<>>)
SitemapXml == Body(500, {"<?xml", "<urlset", "<url>"}, <<>>)
SitemapFragment == Body(50, {"<sitemap>"}, <<>>)
HtmlWithXml == Body(300, {"<?xml", "<!DOCTYPE html"}, <<>>)

\* A sitemap url outside the origin.
ExtUrl(i) == "https://cdn.example.net/sitemap-" \o ToString(i) \o ".xml"

MaxDirectives == 2

RobotsBody(lines) == Body(20 * Len(lines), {}, lines)

\* robots.txt with a user-agent group and n sitemap directives.
RobotsDeclaring(n) ==
    RobotsBody(<<Line("User-agent", "*"), Line("Disallow", "/admin")>>
               \o [i \in 1..n |-> Line("Sitemap", ExtUrl(i))])

RobotsBodies ==
    {RobotsDeclaring(n) : n \in 0..MaxDirectives}
    \cup {RobotsBody(<<Line("sitemap", "https://example.com/sitemap.xml")>>),
          RobotsBody(<<Line("USER-AGENT", "*"), Line("Sitemap", ""),
                       Line("Disallow", "/")>>),
          RobotsBody(<<Line("Sitemap", ExtUrl(1)), Line("Sitemap", ExtUrl(1))>>),
          HtmlNotFound}

\* Strings a robots.txt can declare that are no url: fetch rejects them
\* without a request leaving.
NotUrls == {"Disallow: /"}

PathKeys ==
    {"/robots.txt", "/llms.txt", "/LLMs.txt", "/llms-full.txt"}
    \cup {commonPaths[i] : i \in 1..Len(commonPaths)}

\* A host answers for the paths of its origin and for the outside urls it
\* had declared; every url it does not list is unreachable.
DeadHost == [k \in {"/robots.txt"} |-> Unreachable]

HostOf(robots, llms1, llms2, llms3, ext1, sitemapXml, lastPath) ==
    [k \in PathKeys \cup {ExtUrl(1)} |->
        CASE k = "/robots.txt" -> robots
          [] k = "/llms.txt" -> llms1
          [] k = "/LLMs.txt" -> llms2
          [] k = "/llms-full.txt" -> llms3
          [] k = ExtUrl(1) -> ext1
          [] k = "/sitemap.xml" -> sitemapXml
          [] k = "/sitemap/sitemap.xml" -> lastPath
          [] OTHER -> Response("ok", FALSE, "ok", HtmlNotFound)]

NotFound == Response("ok", FALSE, "ok", HtmlNotFound)

\* Hosts that differ in robots.txt and in the sitemaps; no llms variant.
RobotsHosts ==
    {HostOf(robots, NotFound, NotFound, NotFound, ext1, sitemapXml, NotFound) :
        robots \in UNION {Outcomes(body) : body \in RobotsBodies},
        ext1 \in {Served(SitemapXml), Served(HtmlWithXml), Unreachable},
        sitemapXml \in {Served(SitemapXml), NotFound}}
    \cup {HostOf(Served(RobotsDeclaring(1)), NotFound, NotFound, NotFound, ext1, NotFound,
                 lastPath) :
             ext1 \in {Response("ok", TRUE, "error", SitemapXml),
                       Response("timeout", TRUE, "ok", SitemapXml),
                       Response("ok", TRUE, "hang", SitemapXml)},
             lastPath \in {Served(SitemapFragment), Served(HtmlNotFound)}}

LlmsOutcomes ==
    {Served(LlmsGuide), Served(HtmlNotFound), Response("ok", FALSE, "ok", LlmsGuide),
     Response("error", TRUE, "ok", LlmsGuide), Response("ok", TRUE, "error", LlmsGuide)}

\* Hosts that differ in the llms variants; robots.txt declares nothing.
LlmsHosts ==
    {HostOf(Served(RobotsDeclaring(0)), llms1, llms2, llms3, Unreachable, NotFound,
            NotFound) :
        llms1 \in LlmsOutcomes, llms2 \in LlmsOutcomes, llms3 \in LlmsOutcomes}
    \cup {HostOf(NotFound, llms1, NotFound, NotFound, Unreachable, NotFound, NotFound) :
             llms1 \in {Served(ShortBody), Served(UpperHtml), Served(LowerDoctype),
                        Served(TextNotFound),
                        Served(TextCannotBeFound),
                        Response("timeout", TRUE, "ok", LlmsGuide),
                        Response("ok", TRUE, "hang", LlmsGuide)}}

\* A host where everything is in place.
FullHost ==
    HostOf(Served(RobotsDeclaring(1)), Served(LlmsGuide), NotFound, NotFound,
           Served(SitemapXml), Served(SitemapXml), NotFound)

World(origin, site, host) == [origin |-> origin, site |-> site, host |-> host]

Origins == {"https://example.com", "https://www.github.com", "http://docs.netlify.com"}

\* The worlds a request can meet: every family page on a dead host, a plain
\* page on every host, and the two sample pages, in each shape the
\* collaborator returns them, and its failures, on every origin.
Worlds ==
    {World("https://example.com", SiteOf(page), DeadHost) : page \in FamilyPages}
    \cup {World("https://example.com", SiteOf(PlainPage), host) :
             host \in RobotsHosts \cup LlmsHosts}
    \cup {World(origin, site, host) :
             origin \in Origins,
             site \in {SiteOf(RichPage), SiteOf(PlainPage),
                       Site("ok", ScrapeResult(<<>>, RichPage.html, <<>>, Undef,
                                               Obj(RichPage.metadata))),
                       Site("ok", ScrapeResult(<<>>, <<>>, PlainPage.html, Undef, Undef)),
                       Site("ok", NoResult), Site("throws", NoResult)},
             host \in {DeadHost, FullHost}}

---------------------------------------------------------------------------
(* The heuristic entry point as a state machine *)

\* The url property of a request body.
UrlInputs ==
    {Undef, Null, Str(""), Num(0), Num(42), Arr(<<>>), Str("not a url"),
     Str("example.com"),
     Str("https://www.github.com/pricing"), Str("http://docs.netlify.com")}

\* url.startsWith('http://') || url.startsWith('https://')
HasScheme(text) == text \in {"https://www.github.com/pricing", "http://docs.netlify.com"}

\* The url after the scheme was added where it was missing.
Normalize(text) == IF HasScheme(text) THEN text ELSE "https://" \o text

\* new URL(url): it throws, or yields the origin and the hostname.
ParseUrl(text) ==
    CASE text = "https://example.com" ->
            [ok |-> TRUE, origin |-> "https://example.com",
             hostname |-> Dom2("example", "com")]
      [] text = "https://www.github.com/pricing" ->
            [ok |-> TRUE, origin |-> "https://www.github.com",
             hostname |-> Dom3("www", "github", "com")]
      [] text = "http://docs.netlify.com" ->
            [ok |-> TRUE, origin |-> "http://docs.netlify.com",
             hostname |-> Dom3("docs", "netlify", "com")]
      [] OTHER -> [ok |-> FALSE, origin |-> "", hostname |-> <<>>]

\* The responses of POST.  An error response has no success property and no
\* report; absent properties are written FALSE, 0 and empty.
HeurError(status, message) ==
    [status |-> status, error |-> message, success |-> FALSE, url |-> "",
     overallScore |-> 0, checks |-> <<>>, metadata |-> NoMetadata]

HeurReport(url, overallScore, allChecks, metadata) ==
    [status |-> 200, error |-> "", success |-> TRUE, url |-> url,
     overallScore |-> overallScore, checks |-> allChecks, metadata |-> metadata]

NoResponse == HeurError(0, "none")

\* The four probes launched together: robots.txt and the three llms variants.
Probes == 1..(1 + Len(llmsFilenames))

ProbeUrl(p, cleanUrl) ==
    IF p = 1 THEN cleanUrl \o "/robots.txt" ELSE cleanUrl \o "/" \o llmsFilenames[p - 1]

\* The response the host of w gives for a url, the origin being cleanUrl.
Resource(w, cleanUrl, url) ==
    IF \E k \in DOMAIN w.host : cleanUrl \o k = url
    THEN w.host[CHOOSE k \in DOMAIN w.host : cleanUrl \o k = url]
    ELSE IF url \in DOMAIN w.host THEN w.host[url]
    ELSE Unreachable

\* A handler that reads the body of whatever response arrived.
ReadsAnyResponse(resp) == resp.fetch = "ok"

\* if (response.ok): the body of a response is read only when the fetch
\* resolved with an OK response.
Reads(resp) == resp.fetch = "ok" /\ resp.ok

\* The handler of an llms variant: llmsCheck after it ran on a body.
LlmsHandler(body, filename, current) ==
    IF isValidLlms(body) THEN LlmsFound(filename) ELSE current

HeurInit ==
    /\ world \in Worlds
    /\ hpc = "idle"
    /\ hreq = <<>>
    /\ htmlChecks = <<>>
    /\ pstate = <<>>
    /\ robotsCheck = <<>>
    /\ sitemapCheck = <<>>
    /\ llmsCheck = <<>>
    /\ sitemapUrls = <<>>
    /\ candidates = <<>>
    /\ smIdx = 0
    /\ smPhase = "none"
    /\ reqLog = <<>>
    /\ hresp = NoResponse
    /\ hbody = Undef
    /\ scrapeCalls = 0

\* A page-fetch result that is taken for a page whatever it holds.
HtmlNeverMissing(html) == FALSE

\* if (!html): the result holds no html, or an empty one.
HtmlMissing(html) == html = <<>>

\* The checks listed with the content checks first.
AllChecksContentFirst(llms, robots, sitemap, html) == html \o <<llms, robots, sitemap>>

\* allChecks = [fileChecks.llms, fileChecks.robots, fileChecks.sitemap, ...htmlChecks]
AllChecks(llms, robots, sitemap, html) == <<llms, robots, sitemap>> \o html

\* POST up to the call of the page-fetch collaborator.
HReceive(url) ==
    /\ hpc = "idle"
    /\ hbody' = url
    /\ IF ~Truthy(url)
       THEN /\ hresp' = HeurError(400, "URL is required")
            /\ hpc' = "responded"
            /\ UNCHANGED <<hreq, scrapeCalls>>
       ELSE IF url.t # "string"
       THEN \* url.startsWith is not a function: the outer catch answers
            /\ hresp' = HeurError(500, "Failed to analyze website")
            /\ hpc' = "responded"
            /\ UNCHANGED <<hreq, scrapeCalls>>
       ELSE LET text == Normalize(url.v)
                parsed == ParseUrl(text)
            IN  IF ~parsed.ok
                THEN /\ hresp' = HeurError(400, "Invalid URL format")
                     /\ hpc' = "responded"
                     /\ UNCHANGED <<hreq, scrapeCalls>>
                ELSE \* firecrawl.scrape(url) is called and awaited
                     /\ hreq' = [url |-> text, origin |-> parsed.origin,
                                 hostname |-> parsed.hostname]
                     /\ scrapeCalls' = scrapeCalls + 1
                     /\ hpc' = "scraping"
                     /\ hresp' = hresp
    /\ UNCHANGED <<world, htmlChecks, probeVars, enrichVars, fnVars>>

\* The collaborator settles: POST goes on through analyzeHTML and into
\* checkAdditionalFiles, which launches the four probes.
HScrapeSettles ==
    /\ hpc = "scraping"
    /\ LET site == IF world.origin = hreq.origin THEN world.site
                   ELSE Site("throws", NoResult)
           html == ResultHtml(site.result)
           metadata == ResultMetadata(site.result)
       IN  IF site.scrape = "throws"
           THEN /\ hresp' = HeurError(500, "Failed to scrape website. Please check the URL.")
                /\ hpc' = "responded"
                /\ UNCHANGED <<htmlChecks, probeVars>>
           ELSE IF HtmlMissing(html)
           THEN /\ hresp' = HeurError(500, "Failed to extract content from website")
                /\ hpc' = "responded"
                /\ UNCHANGED <<htmlChecks, probeVars>>
           ELSE /\ htmlChecks' = analyzeHTML(html, metadata)
                /\ robotsCheck' = RobotsDefault
                /\ sitemapCheck' = SitemapDefault
                /\ llmsCheck' = LlmsDefault
                /\ sitemapUrls' = <<>>
                /\ pstate' = [p \in Probes |-> "fetching"]
                /\ reqLog' = [p \in Probes |-> ProbeUrl(p, hreq.origin)]
                /\ hpc' = "probing"
                /\ UNCHANGED <<candidates, smIdx, smPhase, hresp>>
    /\ UNCHANGED <<world, hreq, hbody, scrapeCalls, enrichVars, fnVars>>

\* A prober that lists the candidates and starts the walk as soon as the
\* robots probe has settled, without waiting for the llms probes.
AfterProbeStepRobotsOnly(ps, decl) ==
    /\ pstate' = ps
    /\ sitemapUrls' = decl
    /\ IF ps[1] = "settled"
       THEN LET list == possibleSitemapUrls(decl, hreq.origin)
            IN  /\ candidates' = list
                /\ smIdx' = 1
                /\ smPhase' = "fetching"
                /\ reqLog' = Append(reqLog, list[1])
                /\ hpc' = "walking"
       ELSE UNCHANGED <<candidates, smIdx, smPhase, reqLog, hpc>>
    /\ UNCHANGED <<world, hreq, htmlChecks, sitemapCheck, hresp, hbody, scrapeCalls,
                   enrichVars, fnVars>>

\* What follows a step of a probe that left the probes in state ps with the
\* declared urls decl: Promise.all resolves once all four have settled, the
\* candidates are listed and the first one is requested.
AfterProbeStep(ps, decl) ==
    /\ pstate' = ps
    /\ sitemapUrls' = decl
    /\ IF \A p \in Probes : ps[p] = "settled"
       THEN LET list == possibleSitemapUrls(decl, hreq.origin)
            IN  /\ candidates' = list
                /\ smIdx' = 1
                /\ smPhase' = "fetching"
                /\ reqLog' = Append(reqLog, list[1])
                /\ hpc' = "walking"
       ELSE UNCHANGED <<candidates, smIdx, smPhase, reqLog, hpc>>
    /\ UNCHANGED <<world, hreq, htmlChecks, sitemapCheck, hresp, hbody, scrapeCalls,
                   enrichVars, fnVars>>

\* The fetch of probe p settles: a rejection or an abort is caught, a
\* response that is not OK is left alone, an OK response has its body read.
HProbeResponds(p) ==
    /\ hpc = "probing"
    /\ pstate[p] = "fetching"
    /\ LET resp == Resource(world, hreq.origin, ProbeUrl(p, hreq.origin))
       IN  AfterProbeStep([pstate EXCEPT ![p] = IF Reads(resp) THEN "reading"
                                                ELSE "settled"],
                          sitemapUrls)
    /\ UNCHANGED <<robotsCheck, llmsCheck>>

\* The body of probe p was read, or reading it threw: the handler of the
\* probe runs to its end.  A body that never ends leaves the probe reading.
HProbeBodyRead(p) ==
    /\ hpc = "probing"
    /\ pstate[p] = "reading"
    /\ Resource(world, hreq.origin, ProbeUrl(p, hreq.origin)).read # "hang"
    /\ LET resp == Resource(world, hreq.origin, ProbeUrl(p, hreq.origin))
           ps == [pstate EXCEPT ![p] = "settled"]
       IN  IF resp.read # "ok"
           THEN /\ AfterProbeStep(ps, sitemapUrls)
                /\ UNCHANGED <<robotsCheck, llmsCheck>>
           ELSE IF p = 1
           THEN /\ AfterProbeStep(ps, IF SitemapDirectives(resp.body) # <<>>
                                      THEN SitemapDirectives(resp.body)
                                      ELSE sitemapUrls)
                /\ robotsCheck' = RobotsFound(resp.body)
                /\ UNCHANGED llmsCheck
           ELSE /\ AfterProbeStep(ps, sitemapUrls)
                /\ llmsCheck' = LlmsHandler(resp.body, llmsFilenames[p - 1], llmsCheck)
                /\ UNCHANGED robotsCheck

\* The end of POST: the eight checks in their order, the overall score and
\* the report.
Report(sitemap) ==
    LET allChecks == AllChecks(llmsCheck, robotsCheck, sitemap, htmlChecks)
        scoring == ComputeOverall(allChecks, hreq.hostname)
        metadata == ResultMetadata(world.site.result)
    IN  HeurReport(hreq.url, scoring.overallScore, allChecks,
                   Metadata(metadata.title, metadata.description))

\* A walk that gives up at the first candidate that does not validate.
WalkOnGivesUp ==
    /\ smPhase' = "done"
    /\ hpc' = "responded"
    /\ hresp' = Report(sitemapCheck)
    /\ UNCHANGED <<sitemapCheck, smIdx, reqLog>>

\* The walk moves past the candidate it is at: the next one is requested, or
\* the findings are returned and POST answers.
WalkOn ==
    IF smIdx < Len(candidates)
    THEN /\ smIdx' = smIdx + 1
         /\ smPhase' = "fetching"
         /\ reqLog' = Append(reqLog, candidates[smIdx + 1])
         /\ UNCHANGED <<sitemapCheck, hpc, hresp>>
    ELSE /\ smPhase' = "done"
         /\ hpc' = "responded"
         /\ hresp' = Report(sitemapCheck)
         /\ UNCHANGED <<sitemapCheck, smIdx, reqLog>>

\* The fetch of the candidate settles.
HSitemapResponds ==
    /\ hpc = "walking"
    /\ smPhase = "fetching"
    /\ LET resp == Resource(world, hreq.origin, candidates[smIdx])
       IN  IF Reads(resp)
           THEN /\ smPhase' = "reading"
                /\ UNCHANGED <<sitemapCheck, smIdx, reqLog, hpc, hresp>>
           ELSE WalkOn
    /\ UNCHANGED <<world, hreq, htmlChecks, pstate, robotsCheck, llmsCheck, sitemapUrls,
                   candidates, hbody, scrapeCalls, enrichVars, fnVars>>

\* The body of the candidate was read, or reading it threw.
HSitemapBodyRead ==
    /\ hpc = "walking"
    /\ smPhase = "reading"
    /\ Resource(world, hreq.origin, candidates[smIdx]).read # "hang"
    /\ LET resp == Resource(world, hreq.origin, candidates[smIdx])
       IN  IF resp.read = "ok" /\ isValidSitemap(resp.body)
           THEN LET found == SitemapFound(candidates[smIdx], sitemapUrls, hreq.origin)
                IN  /\ sitemapCheck' = found
                    /\ smPhase' = "done"
                    /\ hpc' = "responded"
                    /\ hresp' = Report(found)
                    /\ UNCHANGED <<smIdx, reqLog>>
           ELSE WalkOn
    /\ UNCHANGED <<world, hreq, htmlChecks, pstate, robotsCheck, llmsCheck, sitemapUrls,
                   candidates, hbody, scrapeCalls, enrichVars, fnVars>>

HReceiveStep == \E url \in UrlInputs : HReceive(url)

HProbeRespondsStep == \E p \in Probes : HProbeResponds(p)

HProbeBodyReadStep == \E p \in Probes : HProbeBodyRead(p)

HeurNext ==
    \/ HReceiveStep
    \/ HScrapeSettles
    \/ HProbeRespondsStep
    \/ HProbeBodyReadStep
    \/ HSitemapResponds
    \/ HSitemapBodyRead

HeurSpecInit == EnrichOff /\ FnIdle /\ HeurInit

Spec == HeurSpecInit /\ [][HeurNext]_vars

\* The hosts of a plain page: the entry point under fair scheduling, where
\* every step that can be taken is taken.
LiveInit ==
    /\ HeurInit
    /\ world \in {World("https://example.com", SiteOf(PlainPage), host) :
                     host \in RobotsHosts \cup LlmsHosts \cup {DeadHost, FullHost}}

LiveSpecInit == EnrichOff /\ FnIdle /\ LiveInit

\* Every continuation of the prober that is ready to run is run.
ProberFairness ==
    /\ WF_vars(HProbeRespondsStep)
    /\ WF_vars(HProbeBodyReadStep)
    /\ WF_vars(HSitemapResponds)
    /\ WF_vars(HSitemapBodyRead)

SpecLive == LiveSpecInit /\ [][HeurNext]_vars /\ ProberFairness

---------------------------------------------------------------------------
(* The score aggregation applied to drawn signal scores *)

\* The scores each signal is drawn from: both sides of the content threshold
\* 60 and of the strong-signal threshold 80.
AggLevels(id) ==
    IF id \in ContentIds THEN {0, 59, 60, 100}
    ELSE IF id = "accessibility" THEN {0, 79, 80}
    ELSE IF id = "semantic-html" THEN {0, 80}
    ELSE {0, 100}

\* The hostnames drawn: without a bonus, of each tier, matching two rules,
\* with a leading "www." and with a "www." further in (stripe.www.com and
\* mywww.github.com).
AggDomains ==
    {Dom2("example", "com"), Dom2("github", "com"), Dom2("netlify", "com"),
     Dom3("docs", "github", "com"), Dom3("www", "github", "com"),
     Dom3("stripe", "www", "com"), <<<<"my", "www">>, L("github"), L("com")>>}

AggChecks(sc) == [i \in 1..Len(CheckIds) |-> [id |-> CheckIds[i], score |-> sc[i]]]

AggInputs ==
    {[checks |-> AggChecks(<<s1, s2, s3, s4, s5, s6, s7, s8>>), domain |-> d] :
        s1 \in AggLevels(CheckIds[1]), s2 \in AggLevels(CheckIds[2]),
        s3 \in AggLevels(CheckIds[3]), s4 \in AggLevels(CheckIds[4]),
        s5 \in AggLevels(CheckIds[5]), s6 \in AggLevels(CheckIds[6]),
        s7 \in AggLevels(CheckIds[7]), s8 \in AggLevels(CheckIds[8]),
        d \in AggDomains}

AggInit ==
    /\ fpc = "agg-input"
    /\ fin \in AggInputs
    /\ fout = <<>>

AggApply ==
    /\ fpc = "agg-input"
    /\ fout' = ComputeOverall(fin.checks, fin.domain)
    /\ fpc' = "agg-applied"
    /\ UNCHANGED <<fin, enrichVars, heurVars>>

AggSpecInit == EnrichOff /\ AggInit /\ HeurOff

SpecAgg == AggSpecInit /\ [][AggApply]_vars

---------------------------------------------------------------------------
(* The text extraction applied to drawn html, once and to its own result *)

MaxHtmlLen == 3

\* The tokens of the drawn html: markup, blanks, words, entities and the
\* tail of an entity.
HtmlTokens == {"<", ">", "p", " ", "cat", "&lt;", "&gt;", "&amp;", "lt;"}

ExtractInit ==
    /\ fpc = "extract-input"
    /\ fin \in SeqsUpTo(HtmlTokens, MaxHtmlLen)
    /\ fout = <<>>

\* extractTextContent(html)
ExtractApply ==
    /\ fpc = "extract-input"
    /\ fout' = <<extractTextContent(fin)>>
    /\ fpc' = "extracted"
    /\ UNCHANGED <<fin, enrichVars, heurVars>>

\* extractTextContent applied to the text it returned.
ExtractAgain ==
    /\ fpc = "extracted"
    /\ fout' = Append(fout, extractTextContent(fout[1]))
    /\ fpc' = "extracted-twice"
    /\ UNCHANGED <<fin, enrichVars, heurVars>>

ExtractNext == ExtractApply \/ ExtractAgain

ExtractSpecInit == EnrichOff /\ ExtractInit /\ HeurOff

SpecExtract == ExtractSpecInit /\ [][ExtractNext]_vars

---------------------------------------------------------------------------
(* The readability scorer applied to drawn text *)

MaxProseLen == 3

\* The words of the drawn text: one, three and nine vowel clusters, a word
\* without a vowel letter, and a sentence end.
ProseItems == {"cat", "banana", "incomprehensibilities", "rhythm", "."}

ReadInit ==
    /\ fpc = "read-input"
    /\ fin \in {Words(items) : items \in SeqsUpTo(ProseItems, MaxProseLen)}
    /\ fout = <<>>

\* calculateReadability(textContent) and the readability check built on it,
\* with the syllable total of the reduce.
ReadApply ==
    /\ fpc = "read-input"
    /\ fout' = [syllables |-> SyllableReduce(WordClusters(fin), 0),
                raw |-> calculateReadability(fin),
                check |-> ReadabilityCheck(fin)]
    /\ fpc' = "read-applied"
    /\ UNCHANGED <<fin, enrichVars, heurVars>>

ReadSpecInit == EnrichOff /\ ReadInit /\ HeurOff

SpecRead == ReadSpecInit /\ [][ReadApply]_vars

---------------------------------------------------------------------------
(* The score aggregation applied twice: to drawn scores, and to the same
   scores with one of them raised *)

\* The scores a signal is raised to: both sides of 60 and of 80.
MonoLevels == {0, 59, 60, 79, 80, 100}

MonoDomains == {Dom2("example", "com"), Dom2("github", "com"), Dom3("docs", "github", "com")}

\* The drawn checks with the score of the signal at position at set to score.
WithScore(checks, at, score) ==
    [i \in 1..Len(checks) |-> IF i = at THEN [checks[i] EXCEPT !.score = score] ELSE checks[i]]

MonoInit ==
    /\ fpc = "mono-input"
    /\ \E in \in AggInputs, at \in 1..Len(CheckIds), to \in MonoLevels :
           /\ in.domain \in MonoDomains
           /\ to > in.checks[at].score
           /\ fin = [checks |-> in.checks, domain |-> in.domain, at |-> at, to |-> to]
    /\ fout = <<>>

\* The score computation of POST for the two lists of checks.
MonoApply ==
    /\ fpc = "mono-input"
    /\ fout' = [before |-> ComputeOverall(fin.checks, fin.domain),
                after |-> ComputeOverall(WithScore(fin.checks, fin.at, fin.to), fin.domain)]
    /\ fpc' = "mono-applied"
    /\ UNCHANGED <<fin, enrichVars, heurVars>>

MonoSpecInit == EnrichOff /\ MonoInit /\ HeurOff

SpecMono == MonoSpecInit /\ [][MonoApply]_vars

---------------------------------------------------------------------------
(* Claims about the enrichment entry point *)

BodyLacksField(body) ==
    body.parse = "object" /\ (~Truthy(body.url) \/ ~Truthy(body.htmlContent))

CarriesBundle(r) ==
    /\ r.status = 200
    /\ r.success
    /\ r.insights # Undef
    /\ r.overallAIReadiness # Undef
    /\ r.topPriorities # Undef

\* C1 (as stated): every enrichment request, whatever its body and whatever
\* the capability does, is answered success: true with insights,
\* overallAIReadiness and topPriorities; no error response is observable.
C1_NoErrorEver == epc = "responded" => CarriesBundle(eresp)

\* C1 (amended): a request whose body parses to an object lacking url or
\* htmlContent is answered 400 with an error; every other request (body
\* unreadable, or url and htmlContent present), whatever the capability
\* does, is answered success: true with the three bundle fields.
C1_NoErrorUnlessFieldMissing ==
    epc = "responded" =>
        IF BodyLacksField(ebody)
        THEN eresp.status = 400 /\ ~eresp.success
        ELSE CarriesBundle(eresp)

\* C1 witness: the capability threw and the caller still got a bundle.
C1_Witness ==
    /\ epc = "responded"
    /\ egen.kind = "throw"
    /\ CarriesBundle(eresp)

GenerationFailed ==
    \/ egen.kind = "throw"
    \/ egen.kind = "text" /\ ~JSONParse(StripFences(egen.text)).ok

\* C2: when the capability throws or returns text that is not JSON after
\* fence stripping and trimming, the response is success: true and carries
\* exactly the fallback bundle's insights, overallAIReadiness, topPriorities.
C2_FallbackOnFailure ==
    (epc = "responded" /\ GenerationFailed) =>
        LET mock == generateMockInsights(build, ebody.url.v).v
        IN  /\ eresp.status = 200 /\ eresp.success
            /\ eresp.insights = mock.insights
            /\ eresp.overallAIReadiness = mock.overallAIReadiness
            /\ eresp.topPriorities = mock.topPriorities

\* C2 witness: fenced text that is still not JSON ended in the fallback.
C2_Witness ==
    /\ epc = "responded"
    /\ egen.kind = "text"
    /\ \E i \in 1..Len(egen.text) : egen.text[i] \in {Fence, FenceJson}
    /\ ~JSONParse(StripFences(egen.text)).ok
    /\ eresp.insights = generateMockInsights(build, ebody.url.v).v.insights

IsStringArray(x) ==
    x.t = "array" /\ \A i \in 1..Len(x.v) : x.v[i].t = "string"

IsInsight(x) ==
    /\ x.t = "object"
    /\ {"id", "label", "score", "status", "details", "recommendation",
        "actionItems"} \subseteq DOMAIN x.v
    /\ x.v.id.t = "string" /\ x.v.label.t = "string" /\ x.v.score.t = "number"
    /\ x.v.status.t = "string" /\ x.v.details.t = "string"
    /\ x.v.recommendation.t = "string"
    /\ IsStringArray(x.v.actionItems)

IsInsightBundle(r) ==
    /\ r.insights.t = "array"
    /\ \A i \in 1..Len(r.insights.v) : IsInsight(r.insights.v[i])
    /\ r.overallAIReadiness.t = "string"
    /\ IsStringArray(r.topPriorities)

\* C3: for every text the capability returns, also text that parses as JSON
\* of another shape, the response is a structurally valid InsightBundle:
\* insights a sequence of Insights, overallAIReadiness a string,
\* topPriorities a sequence of strings.
C3_AlwaysValidBundle ==
    (epc = "responded" /\ eresp.success) => IsInsightBundle(eresp)

---------------------------------------------------------------------------
(* Claims about the score aggregation *)

\* The score of signal id among the drawn checks.
ScoreOf(id) ==
    LET i == CHOOSE j \in 1..Len(fin.checks) : fin.checks[j].id = id
    IN  fin.checks[i].score

\* Sum of score x weight over the eight signals, in tenths.
ClaimWeightedTenths ==
    15 * ScoreOf("readability") + 14 * ScoreOf("heading-structure")
    + 12 * ScoreOf("meta-tags") + 10 * ScoreOf("semantic-html")
    + 9 * ScoreOf("robots-txt") + 9 * ScoreOf("accessibility")
    + 8 * ScoreOf("sitemap") + 3 * ScoreOf("llms-txt")

\* round(x / 80) for x in tenths: the integer n with n - 1/2 <= x / 80 < n + 1/2.
ClaimRound(x) ==
    CHOOSE n \in 0..100 : 160 * n - 80 <= 2 * x /\ 2 * x < 160 * n + 80

ClaimStrongContent == {id \in ContentIds : ScoreOf(id) >= 60}

ClaimBonus ==
    IF Cardinality(ClaimStrongContent) = 3 THEN 15
    ELSE IF Cardinality(ClaimStrongContent) = 2 THEN 10
    ELSE 0

SomeSignalStrong == \E i \in 1..Len(fin.checks) : fin.checks[i].score >= 80

ClaimRaise(b) == IF b < 35 /\ SomeSignalStrong THEN 35 ELSE b

\* C4: the overall score is computed in exactly this order: the rounded
\* weighted mean of the eight signals under the fixed weights, then +15 when
\* all three content signals score >= 60 (or +10 when exactly two do), then the
\* raise to 35 when the base is below 35 and some signal scores >= 80, then
\* min(100, base + reputationBonus).
C4_AggregationOrder ==
    fpc = "agg-applied" =>
        LET base == ClaimRound(ClaimWeightedTenths)
            bonused == base + ClaimBonus
            raised == ClaimRaise(bonused)
        IN  /\ fout.weighted = base
            /\ fout.bonused = bonused
            /\ fout.raised = raised
            /\ fout.overallScore = Min(100, raised + fout.reputationBonus)

\* C4 witness: a run in which every step changes the value: the weighted
\* mean is rounded, the content bonus is added, the floor-raise fires and the
\* reputation bonus is added.
C4_Witness ==
    /\ fpc = "agg-applied"
    /\ ClaimWeightedTenths % 80 # 0
    /\ fout.bonused > fout.weighted
    /\ fout.raised > fout.bonused
    /\ fout.overallScore > fout.raised

\* C5: the floor-raise never fires spuriously: the base becomes 35 only when
\* the base after the content bonus is below 35 and some signal scores >= 80;
\* with no signal >= 80 the base is unchanged, so with all eight signals at 0
\* and no reputation bonus the overall score is 0.
C5_FloorRaiseNotSpurious ==
    fpc = "agg-applied" =>
        /\ fout.raised # fout.bonused =>
               (fout.raised = 35 /\ fout.bonused < 35 /\ SomeSignalStrong)
        /\ ~SomeSignalStrong => fout.raised = fout.bonused
        /\ ((\A i \in 1..Len(fin.checks) : fin.checks[i].score = 0)
              /\ fout.reputationBonus = 0) => fout.overallScore = 0

\* C5 witness: all eight signals at 0, no reputation bonus, aggregated.
C5_Witness ==
    /\ fpc = "agg-applied"
    /\ \A i \in 1..Len(fin.checks) : fin.checks[i].score = 0
    /\ fout.reputationBonus = 0
    /\ fout.overallScore = 0

---------------------------------------------------------------------------
(* Claims about the heuristic entry point *)

\* POST has answered with a report.
Reported == hpc = "responded" /\ hresp.success

\* The response the host gives probe p of the request.
ProbeResponse(p) == Resource(world, hreq.origin, ProbeUrl(p, hreq.origin))

\* The check of the report with the given id.
ReportCheck(id) ==
    hresp.checks[CHOOSE i \in 1..Len(hresp.checks) : hresp.checks[i].id = id]

\* C6: in every successful heuristic report each of the 8 signals has an
\* integer score between 0 and 100, and overallScore is an integer between 0
\* and 100, whatever the page, the metadata, the probe outcomes and the
\* hostname.
C6_ScoresInRange ==
    Reported =>
        /\ Len(hresp.checks) = 8
        /\ \A i \in 1..Len(hresp.checks) : hresp.checks[i].score \in 0..100
        /\ hresp.overallScore \in 0..100

\* A report on the page whose metadata additions sum to 115, asked for under
\* a hostname that earns a bonus: both clamps have acted.
C6_Witness ==
    /\ Reported
    /\ world.site = SiteOf(RichPage)
    /\ world.host = FullHost
    /\ hreq.hostname = Dom3("docs", "netlify", "com")
    /\ ReportCheck("meta-tags").score = 100
    /\ hresp.overallScore = 100

\* The thresholds of the signals whose status is derived from the score.
PassAt(id) == IF id = "meta-tags" THEN 70 ELSE 80

WarnAt(id) == IF id \in {"heading-structure", "accessibility"} THEN 50 ELSE 40

ThresholdIds == {"heading-structure", "accessibility", "meta-tags", "semantic-html",
                 "robots-txt"}

\* C7: for every signal of a report the status is determined by the emitted
\* score and the thresholds of the signal: pass from the pass threshold on,
\* warning from the warning threshold on, fail below.
C7_StatusFollowsScore ==
    Reported =>
        \A i \in 1..Len(hresp.checks) :
            LET check == hresp.checks[i]
            IN  check.id \in ThresholdIds =>
                    check.status = StatusOf(check.score, PassAt(check.id), WarnAt(check.id))

\* The llms variants whose probe succeeded with a body that validates.
GoodVariants == {p \in Probes \ {1} : ~Failed(ProbeResponse(p))
                                        /\ isValidLlms(ProbeResponse(p).body)}

RECURSIVE WalkFinding(_, _, _)
\* The sitemap finding of a walk over the candidates from index i on, decl
\* being the urls robots.txt declared: the first candidate whose probe
\* succeeds with a body that validates.
WalkFinding(list, i, decl) ==
    IF i > Len(list) THEN SitemapDefault
    ELSE LET resp == Resource(world, hreq.origin, list[i])
         IN  IF ~Failed(resp) /\ isValidSitemap(resp.body)
             THEN SitemapFound(list[i], decl, hreq.origin)
             ELSE WalkFinding(list, i + 1, decl)

\* The sitemap finding when robots.txt declared decl.
SitemapFinding(decl) == WalkFinding(possibleSitemapUrls(decl, hreq.origin), 1, decl)

\* The page fetch of the request succeeded with a page.
PageFetched ==
    /\ hreq # <<>>
    /\ world.origin = hreq.origin
    /\ world.site.scrape = "ok"
    /\ ResultHtml(world.site.result) # <<>>

\* C8 as stated: a failing probe degrades its own signal only, so the sitemap
\* finding is what it would have been had the robots probe succeeded.
C8_OtherFindingsUntouched ==
    Reported => ReportCheck("sitemap") = SitemapFinding(SitemapDirectives(ProbeResponse(1).body))

\* C8: a failing probe never ends the request with an error: once the page
\* was fetched the answer is a report with all 8 signals.  A failed robots
\* probe leaves the robots finding at its default, and a failed llms probe
\* contributes nothing to the llms finding; the robots and llms findings
\* depend on their own probes alone.  The sitemap finding is that of a walk
\* over the urls a successful robots probe declared and the common paths: a
\* failed robots probe also takes the urls it would have declared out of
\* the walk.
C8_ProbeFailureContained ==
    /\ (hpc = "responded" /\ PageFetched) => Reported
    /\ Reported =>
        /\ Len(hresp.checks) = 8
        /\ ReportCheck("robots-txt") = IF Failed(ProbeResponse(1)) THEN RobotsDefault
                                       ELSE RobotsFound(ProbeResponse(1).body)
        /\ IF GoodVariants = {} THEN ReportCheck("llms-txt") = LlmsDefault
           ELSE \E p \in GoodVariants :
                    ReportCheck("llms-txt") = LlmsFound(llmsFilenames[p - 1])
        /\ ReportCheck("sitemap")
              = SitemapFinding(IF Failed(ProbeResponse(1)) THEN <<>>
                               ELSE SitemapDirectives(ProbeResponse(1).body))

\* A report after the robots probe failed on a host whose robots.txt
\* declares a sitemap that validates: the robots finding is the default and
\* the sitemap was found at a common path instead.
C8_Witness ==
    /\ Reported
    /\ Failed(ProbeResponse(1))
    /\ SitemapDirectives(ProbeResponse(1).body) = <<ExtUrl(1)>>
    /\ ~Failed(Resource(world, hreq.origin, ExtUrl(1)))
    /\ ReportCheck("robots-txt") = RobotsDefault
    /\ ReportCheck("sitemap").score = 100
    /\ ReportCheck("sitemap").details = <<"Valid XML sitemap found", "at /sitemap.xml">>

\* C9: when more than one llms variant validates, the llms finding names the
\* first of them in the order llms.txt, LLMs.txt, llms-full.txt, in whatever
\* order the three responses arrive.
C9_FirstValidVariantWins ==
    (Reported /\ GoodVariants # {}) =>
        LET first == CHOOSE p \in GoodVariants : \A q \in GoodVariants : p <= q
        IN  ReportCheck("llms-txt") = LlmsFound(llmsFilenames[first - 1])

\* The requests of the log that leave for the network.
Outbound == SelectSeq(reqLog, LAMBDA url : url \notin NotUrls)

\* C10: one analysis request performs at most 10 outbound probe requests,
\* whatever robots.txt declares and however the host fails.
C10_AtMostTenRequests == Len(Outbound) <= 10


\* C11: the prober always eventually returns its findings: once the probes
\* are launched the request is answered, whatever the host does.
C11_ProberReturns == (hpc = "probing") ~> (hpc = "responded")

\* The ids of the signals of a report, in the order of the contract.
SignalOrder ==
    <<"llms-txt", "robots-txt", "sitemap", "heading-structure", "readability",
      "meta-tags", "semantic-html", "accessibility">>

\* C12: every successful heuristic report holds exactly 8 signals, one per
\* id, in the fixed order llms-txt, robots-txt, sitemap, heading-structure,
\* readability, meta-tags, semantic-html, accessibility, in whatever order the
\* probes complete and whichever of them fail.
C12_FixedSignalOrder ==
    Reported =>
        /\ Len(hresp.checks) = Len(SignalOrder)
        /\ \A i \in 1..Len(SignalOrder) : hresp.checks[i].id = SignalOrder[i]

\* A report where one llms probe failed on the network and, of the two valid
\* variants, the later one answered last and won: the probes completed in
\* another order than the order of the list.
C12_Witness ==
    /\ Reported
    /\ ProbeResponse(4).fetch = "error"
    /\ {2, 3} \subseteq GoodVariants
    /\ hresp.checks[1] = LlmsFound(llmsFilenames[2])
    /\ hresp.checks[2].id = "robots-txt"
    /\ hresp.checks[3] = SitemapDefault

\* String(url) for a url that is a string or an array of strings: an array
\* is joined with commas, so the empty array reads as the empty string.
UrlText(url) ==
    IF url.t = "string" THEN url.v
    ELSE IF url.v = <<>> THEN "" ELSE url.v[1]

\* The url of the request is missing, or it is text that does not parse as a
\* URL once https:// is put before it where it has no scheme.  (A number is
\* left out: its digits may read as a host.)
UrlMissingOrUnparsable ==
    \/ ~Truthy(hbody)
    \/ /\ hbody.t \in {"string", "array"}
       /\ ~ParseUrl(Normalize(UrlText(hbody))).ok

\* C13: a heuristic request whose url is missing or does not parse as a URL
\* is answered with a 4xx status and a specific message, and neither the
\* page-fetch collaborator nor any auxiliary probe is invoked for it.
C13_InvalidUrlRejected ==
    (hpc = "responded" /\ UrlMissingOrUnparsable) =>
        /\ hresp.status \in 400..499
        /\ hresp.error \in {"URL is required", "Invalid URL format"}
        /\ scrapeCalls = 0
        /\ reqLog = <<>>

\* The page-fetch collaborator was called and threw, or returned a result
\* with no html in any of its three places.
ScrapeFailedOrEmpty ==
    /\ scrapeCalls > 0
    /\ \/ world.origin # hreq.origin
       \/ world.site.scrape = "throws"
       \/ ResultHtml(world.site.result) = <<>>

\* C14: when the page-fetch collaborator fails or returns empty html, POST
\* answers with a 5xx status and a generic message, produces no report and
\* launches no auxiliary probe for the request.
C14_ScrapeFailureIsFatal ==
    (hpc = "responded" /\ ScrapeFailedOrEmpty) =>
        /\ hresp.status \in 500..599
        /\ hresp.error \in {"Failed to scrape website. Please check the URL.",
                            "Failed to extract content from website"}
        /\ ~hresp.success
        /\ hresp.checks = <<>>
        /\ reqLog = <<>>
        /\ pstate = <<>>

\* The collaborator returned a result without html and POST has answered.
C14_Witness ==
    /\ hpc = "responded"
    /\ scrapeCalls = 1
    /\ world.origin = hreq.origin
    /\ world.site = Site("ok", NoResult)
    /\ hresp = HeurError(500, "Failed to extract content from website")

\* A response that is a hit by the stated conditions: it arrived and is
\* successful, its body is longer than 10 characters, holds no HTML doctype
\* and no html tag, and none of the three phrases, in any letter case.
GenuineHit(resp) ==
    /\ ~Failed(resp)
    /\ resp.body.len > 10
    /\ ~BodyIncludesLower(resp.body, "<!doctype")
    /\ ~BodyIncludesLower(resp.body, "<html")
    /\ ~BodyIncludesLower(resp.body, "404 not found")
    /\ ~BodyIncludesLower(resp.body, "page not found")
    /\ ~BodyIncludesLower(resp.body, "cannot be found")

\* C15: an llms variant response is a hit only if it is successful, longer
\* than 10 characters, free of an HTML doctype or html tag and free of the
\* phrases '404 not found', 'page not found', 'cannot be found' in any letter
\* case; when no variant is such a hit the llms-txt signal is score 0 / fail.
C15_OnlyGenuineHits ==
    (Reported /\ \A p \in Probes \ {1} : ~GenuineHit(ProbeResponse(p))) =>
        /\ ReportCheck("llms-txt").score = 0
        /\ ReportCheck("llms-txt").status = "fail"

\* The candidate the walk stopped at answered with a body that validates.
WinnerValidates ==
    /\ Reported
    /\ LET resp == Resource(world, hreq.origin, candidates[smIdx])
       IN  ~Failed(resp) /\ isValidSitemap(resp.body)

\* The urls the robots probe took from robots.txt.
DeclaredUrls == {sitemapUrls[i] : i \in 1..Len(sitemapUrls)}

HasFiveActionItems(x) ==
    /\ IsInsight(x)
    /\ Len(x.v.actionItems.v) = 5

\* C17: every Insight of every bundle the enrichment entry point returns, the
\* fallback bundle included, has actionItems that is a sequence of exactly 5
\* strings.
C17_FiveActionItems ==
    (epc = "responded" /\ eresp.success) =>
        /\ eresp.insights.t = "array"
        /\ \A i \in 1..Len(eresp.insights.v) : HasFiveActionItems(eresp.insights.v[i])


\* The request ended in the fallback: its body could not be read, building
\* the prompt threw, the capability threw or its text did not parse.
EndedInFallback ==
    /\ epc = "responded"
    /\ \/ ebody.parse # "object"
       \/ /\ Truthy(ebody.url) /\ Truthy(ebody.htmlContent)
          /\ \/ PromptThrows(JsOr(ebody.currentChecks, Arr(<<>>)))
             \/ GenerationFailed

\* C18: the fallback bundle has fixed content: every request that ends in
\* the fallback receives the same bundle, the one a request with an unreadable
\* body receives, whatever its url and whichever failure led to the fallback.
C18_FallbackIsFixed ==
    EndedInFallback =>
        /\ eresp.insights = PostCatch(build).insights
        /\ eresp.overallAIReadiness = PostCatch(build).overallAIReadiness
        /\ eresp.topPriorities = PostCatch(build).topPriorities


\* C19: the text extractor is idempotent: extracting the text of an
\* extracted text returns it unchanged, also for html that holds the
\* entities &lt;, &gt; and &amp;.
C19_ExtractIdempotent ==
    fpc = "extracted-twice" => fout[2] = fout[1]

\* The checks with everything but id and score erased: what two runs with
\* identical signal scores have in common.
ScoresOnly(checks) ==
    [i \in 1..Len(checks) |-> CheckResult(checks[i].id, "", "", checks[i].score, <<>>, "")]

\* C20: the aggregation is deterministic: the overallScore of a report is
\* the value the aggregation gives for the scores of its signals and the
\* hostname alone, so that runs with identical scores and hostname agree,
\* whatever the details of the findings and the order the probes completed in.
C20_ScoreFromScoresAlone ==
    Reported =>
        hresp.overallScore = ComputeOverall(ScoresOnly(hresp.checks), hreq.hostname).overallScore

\* A report whose llms finding was decided by the order the probes arrived
\* in, with a score above the floor.
C20_Witness ==
    /\ Reported
    /\ {2, 3, 4} \subseteq GoodVariants
    /\ ReportCheck("llms-txt") = LlmsFound(llmsFilenames[3])
    /\ hresp.overallScore = ComputeOverall(ScoresOnly(hresp.checks), hreq.hostname).overallScore
    /\ hresp.overallScore > 35


---------------------------------------------------------------------------
(* Claims about the content checks *)

\* The html the report was computed from.
ReportHtml == ResultHtml(world.site.result)

\* The levels of the heading tags of the page, in document order: the
\* opening tags h1..h6 that are closed by a ">".
LevelsOf(html) ==
    LET at == SelectSeq([j \in 1..Len(html) |-> j],
                        LAMBDA j : /\ j < Len(html)
                                   /\ html[j] = "<"
                                   /\ HeadingLevel(html[j + 1]) # 0
                                   /\ \E k \in (j + 2)..Len(html) : html[k] = ">")
    IN  [n \in 1..Len(at) |-> HeadingLevel(html[at[n] + 1])]

H1sOf(levels) == Cardinality({i \in 1..Len(levels) : levels[i] = 1})

RisesOf(levels) == Cardinality({i \in 2..Len(levels) : levels[i] - levels[i - 1] > 1})

H1PenaltyOf(levels) ==
    IF H1sOf(levels) = 0 THEN 40 ELSE IF H1sOf(levels) > 1 THEN 30 ELSE 0

\* C21: the heading-structure score is max(0, 100 - p - 15 x s) with p = 40
\* without an H1, 30 with more than one and 0 with exactly one, and s the
\* number of neighbouring headings whose level rises by more than 1.  Without
\* skips: no H1 gives 60 and details that mention 'No H1 found', the levels
\* 1,2,3 give 100 / pass, and two H1s give 70.
C21_HeadingScore ==
    Reported =>
        LET levels == LevelsOf(ReportHtml)
            check == ReportCheck("heading-structure")
        IN  /\ check.score = Max(0, 100 - H1PenaltyOf(levels) - 15 * RisesOf(levels))
            /\ (H1sOf(levels) = 0 /\ RisesOf(levels) = 0) =>
                   /\ check.score = 60
                   /\ \E i \in 1..Len(check.details) : check.details[i] = "No H1 found"
            /\ levels = <<1, 2, 3>> => (check.score = 100 /\ check.status = "pass")
            /\ (H1sOf(levels) = 2 /\ RisesOf(levels) = 0) => check.score = 70

\* A page with the headings h1, h2, h3 was reported at 100 / pass.
C21_Witness ==
    /\ Reported
    /\ LevelsOf(ReportHtml) = <<1, 2, 3>>
    /\ ReportCheck("heading-structure").score = 100
    /\ ReportCheck("heading-structure").status = "pass"


RECURSIVE SumOf(_, _)
\* The sum of f over the set S.
SumOf(f, S) ==
    IF S = {} THEN 0
    ELSE LET x == CHOOSE y \in S : TRUE IN f[x] + SumOf(f, S \ {x})

\* The positions where a word of the text starts: a word is a run of tokens
\* without a blank.
WordStarts(text) ==
    {i \in 1..Len(text) : text[i] # " " /\ (i = 1 \/ text[i - 1] = " ")}

\* The vowel clusters of the word that starts at position i.
ClustersAt(text, i) ==
    LET last == CHOOSE j \in i..Len(text) :
                    /\ \A k \in i..j : text[k] # " "
                    /\ (j = Len(text) \/ text[j + 1] = " ")
    IN  SumOf([k \in i..last |-> VowelClusters(text[k])], i..last)

\* The sum over the words of max(1, vowel clusters of the word).
FlooredSyllables(text) ==
    SumOf([i \in WordStarts(text) |-> Max(1, ClustersAt(text, i))], WordStarts(text))

\* C22: the syllable total of the readability scorer is the sum over all
\* words of max(1, vowel clusters of the word): a word without a vowel counts
\* 1 syllable wherever it stands in the text.
C22_SyllableFloorPerWord ==
    fpc = "read-applied" => fout.syllables = FlooredSyllables(fin)


\* The text holds nothing but blanks and sentence ends: it has no sentence,
\* or no word.
NoSentenceOrNoWord(text) == \A i \in 1..Len(text) : text[i] \in SentenceEnds \cup {" "}

\* C23: the readability signal follows from the raw Flesch value alone: at
\* least 70 gives 100 / pass, at least 50 gives 80 / pass, at least 30 gives
\* 50 / warning, anything lower 20 / fail.  Text without a sentence or without
\* a word has the raw value 0 and so 20 / fail; the score is always one of 20,
\* 50, 80 and 100.
C23_ReadabilityBands ==
    fpc = "read-applied" =>
        LET raw == fout.raw
            check == fout.check
        IN  /\ raw.num >= 70 * raw.den => (check.score = 100 /\ check.status = "pass")
            /\ (raw.num < 70 * raw.den /\ raw.num >= 50 * raw.den) =>
                   (check.score = 80 /\ check.status = "pass")
            /\ (raw.num < 50 * raw.den /\ raw.num >= 30 * raw.den) =>
                   (check.score = 50 /\ check.status = "warning")
            /\ raw.num < 30 * raw.den => (check.score = 20 /\ check.status = "fail")
            /\ NoSentenceOrNoWord(fin) =>
                   (raw.num = 0 /\ check.score = 20 /\ check.status = "fail")
            /\ check.score \in {20, 50, 80, 100}

\* The empty text was scored 20 / fail with the raw value 0.
C23_Witness ==
    /\ fpc = "read-applied"
    /\ fin = <<>>
    /\ fout.raw.num = 0
    /\ fout.check.score = 20
    /\ fout.check.status = "fail"


---------------------------------------------------------------------------
(* Claims about the sitemap walk *)

\* The five conventional locations on the origin of the request.
ConventionalUrls == [i \in 1..Len(commonPaths) |-> hreq.origin \o commonPaths[i]]

\* No entry of the sequence occurs twice.
Distinct(q) == \A i, j \in 1..Len(q) : i # j => q[i] # q[j]

\* The candidates have been listed.
Listed == hpc \in {"walking", "responded"} /\ candidates # <<>>

\* The order of the list: the urls robots.txt declared, in the order found,
\* followed by the conventional locations not yet listed, in their order.
DeclaredThenConventional ==
    Listed =>
        /\ SubSeq(candidates, 1, Len(sitemapUrls)) = sitemapUrls
        /\ SubSeq(candidates, Len(sitemapUrls) + 1, Len(candidates))
               = SelectSeq(ConventionalUrls, LAMBDA u : u \notin DeclaredUrls)

\* C24: the candidate list is every sitemap url declared in robots.txt, in
\* discovery order, followed by the five conventional paths on the origin,
\* and holds no url twice, so no url is requested twice during one walk.
C24_NoCandidateTwice ==
    Listed =>
        /\ SubSeq(candidates, 1, Len(sitemapUrls)) = sitemapUrls
        /\ Distinct(candidates)
        /\ Distinct(SubSeq(reqLog, Cardinality(Probes) + 1, Len(reqLog)))


\* The sitemap requests of the walk so far, in the order they were made.
WalkRequests == SubSeq(reqLog, Cardinality(Probes) + 1, Len(reqLog))

\* The url answers with a successful response whose body validates.
Validates(url) ==
    LET resp == Resource(world, hreq.origin, url)
    IN  ~Failed(resp) /\ isValidSitemap(resp.body)

\* C25: the sitemap walk is sequential and short-circuits: the candidates are
\* requested in list order, one at a time (the request in flight is the last
\* one made); a candidate that errors, times out, is not OK or does not
\* validate is followed by the next one, to the end of the list; after the
\* first candidate that validates none is requested.
C25_SequentialShortCircuit ==
    Listed =>
        LET n == Len(WalkRequests)
        IN  /\ n >= 1 /\ n <= Len(candidates)
            /\ WalkRequests = SubSeq(candidates, 1, n)
            /\ smIdx = n
            /\ \A i \in 1..(n - 1) : ~Validates(candidates[i])
            /\ hpc = "responded" =>
                   IF Validates(candidates[n])
                   THEN ReportCheck("sitemap").score = 100
                   ELSE n = Len(candidates) /\ ReportCheck("sitemap") = SitemapDefault

\* The declared url failed, the walk went on to /sitemap.xml, which
\* validated, and the other four locations were never requested.
C25_Witness ==
    /\ Reported
    /\ sitemapUrls = <<ExtUrl(1)>>
    /\ ~Validates(ExtUrl(1))
    /\ Validates(hreq.origin \o "/sitemap.xml")
    /\ WalkRequests = <<ExtUrl(1), hreq.origin \o "/sitemap.xml">>
    /\ Len(candidates) = 6


---------------------------------------------------------------------------
(* Claims about the reputation bonus *)

\* The hostname without a leading "www." label.
WithoutLeadingWww(host) ==
    IF Len(host) >= 2 /\ Head(host) = L("www") THEN Tail(host) ELSE host

\* The hostname contains word followed by a dot.
ContainsWordDot(host, word) ==
    \E i \in 1..(Len(host) - 1) : host[i][Len(host[i])] = word

\* The hostname is d or ends with a dot followed by d.
IsOrIsUnder(host, d) ==
    \E k \in 0..(Len(host) - 1) : SubSeq(host, k + 1, Len(host)) = d

\* The bonus of the hostname by the stated rules, the first that applies.
StatedBonus(domain) ==
    LET host == WithoutLeadingWww(domain)
    IN  IF \E word \in {"docs", "developer", "api"} : ContainsWordDot(host, word) THEN 20
        ELSE IF \E d \in topTierDomains : IsOrIsUnder(host, d) THEN 18
        ELSE IF \E d \in secondTierDomains : IsOrIsUnder(host, d) THEN 12
        ELSE 0

\* C26: the reputation bonus is a function of the hostname with only a
\* leading 'www.' removed: 20 when it contains 'docs.', 'developer.' or
\* 'api.', else 18 for a top-tier domain or a subdomain of one, else 12 for a
\* second-tier domain or a subdomain of one, else 0; one bonus applies, the
\* first in that order.
C26_BonusOfHostname ==
    fpc = "agg-applied" => fout.reputationBonus = StatedBonus(fin.domain)


---------------------------------------------------------------------------
(* Claims about the metadata check *)

\* The metadata the report was computed with.
ReportMetadata == ResultMetadata(world.site.result)

\* A title is known from the metadata or from an og:title marker.
TitleKnown ==
    \/ Truthy(ReportMetadata.ogTitle) \/ Truthy(ReportMetadata.title)
    \/ Includes(ReportHtml, "og:title")

\* The page has a title tag.
BareTitle == IncludesTag(ReportHtml, "title")

DescriptionKnown ==
    \/ Truthy(ReportMetadata.ogDescription) \/ Truthy(ReportMetadata.description)
    \/ Includes(ReportHtml, "og:description")
    \/ Includes(ReportHtml, "name=\"description\"")

AuthorMarked ==
    \/ Includes(ReportHtml, "name=\"author\"")
    \/ Includes(ReportHtml, "property=\"article:author\"")

DateMarked ==
    \/ Includes(ReportHtml, "property=\"article:published_time\"")
    \/ Includes(ReportHtml, "property=\"article:modified_time\"")

\* The extra 10 of a description, as the check awards it.
LengthExtra ==
    IF DescriptionKnown /\ FirstContentLength(ReportHtml) >= 70
       /\ FirstContentLength(ReportHtml) <= 160
    THEN 10 ELSE 0

\* The ladder with the given addition for a page whose only title is a bare
\* title tag.
MetaLadder(bare) ==
    Min(100, 30 + (IF TitleKnown THEN 30 ELSE IF BareTitle THEN bare ELSE 0)
              + (IF DescriptionKnown THEN 25 + LengthExtra ELSE 0)
              + (IF AuthorMarked THEN 10 ELSE 0) + (IF DateMarked THEN 10 ELSE 0))

\* C27: the metadata score starts at 30 and adds 30 for a title (20 when the
\* title is a bare title tag only), 25 for a description, 10 for an author
\* marker and 10 for a date marker, clamped to 100, with pass from 70 and
\* warning from 40; a page without any of these scores 30 / fail.
C27_MetaLadder ==
    Reported =>
        LET check == ReportCheck("meta-tags")
        IN  /\ check.score = MetaLadder(20)
            /\ check.status = (IF check.score >= 70 THEN "pass"
                               ELSE IF check.score >= 40 THEN "warning" ELSE "fail")
            /\ (~TitleKnown /\ ~BareTitle /\ ~DescriptionKnown /\ ~AuthorMarked
                   /\ ~DateMarked) => (check.score = 30 /\ check.status = "fail")


\* The position of the description marker of the page.
DescriptionAt ==
    CHOOSE i \in 1..Len(ReportHtml) :
        /\ Parts(ReportHtml[i]) \cap {"og:description", "name=\"description\""} # {}
        /\ \A k \in 1..(i - 1) :
               Parts(ReportHtml[k]) \cap {"og:description", "name=\"description\""} = {}

\* The content attribute inside the tag of the description marker, or 0.
OwnContentAt ==
    LET found == {j \in (DescriptionAt + 1)..Len(ReportHtml) :
                     /\ ContentLength(ReportHtml[j]) >= 0
                     /\ \A k \in (DescriptionAt + 1)..(j - 1) : ReportHtml[k] # ">"}
    IN  IF found = {} THEN 0 ELSE FirstIn(found)

\* The description of the page comes from a meta tag of the html and from
\* nowhere else.
DescriptionInHtml ==
    /\ \/ Includes(ReportHtml, "og:description")
       \/ Includes(ReportHtml, "name=\"description\"")
    /\ ~Truthy(ReportMetadata.ogDescription) /\ ~Truthy(ReportMetadata.description)
    /\ OwnContentAt # 0

\* The character length of that description.
OwnLength == ContentLength(ReportHtml[OwnContentAt])

\* The check awarded the extra 10: it marks the description as well-formed.
ExtraAwarded ==
    \E i \in 1..Len(ReportCheck("meta-tags").details) :
        ReportCheck("meta-tags").details[i] = "Description +"

\* C28: the extra +10 of the metadata score is awarded exactly when a
\* description is present and the length of that description is between 70
\* and 160 characters, whatever else the page holds.
C28_ExtraByOwnLength ==
    (Reported /\ DescriptionInHtml) => (ExtraAwarded <=> (OwnLength >= 70 /\ OwnLength <= 160))


\* The urls of the Sitemap directives of a robots.txt body: the values of
\* the lines whose field is "sitemap" in any letter case.
DirectiveUrls(body) ==
    {body.lines[i].value : i \in {j \in 1..Len(body.lines) :
                                     /\ LowerField(body.lines[j].field) = "sitemap"
                                     /\ body.lines[j].value # ""}}

---------------------------------------------------------------------------
(* Claims about raising one score *)

\* C30: the aggregation is monotone: with the hostname fixed, raising the
\* score of one signal and leaving the other seven never lowers overallScore,
\* also across the content-bonus threshold at 60 and the floor-raise
\* thresholds at 80 and 35.
C30_Monotone ==
    fpc = "mono-applied" => fout.after.overallScore >= fout.before.overallScore

\* A content signal went from 59 to 60, which brought the content bonus, and
\* the overall score went up.
C30_Witness ==
    /\ fpc = "mono-applied"
    /\ fin.checks[fin.at].id \in ContentIds
    /\ fin.checks[fin.at].score = 59
    /\ fin.to = 60
    /\ fout.after.bonused - fout.after.weighted > fout.before.bonused - fout.before.weighted
    /\ fout.after.overallScore > fout.before.overallScore

=============================================================================
